---- MODULE Spec2Model ----
(***************************************************************************)
(* A model of letta/server/server.py: SyncServer's request path            *)
(* (user_message / system_message / send_messages -> _step -> load_agent   *)
(* -> Agent.step -> save_agent), the per-agent lock registry it uses and   *)
(* the agent's step/chaining loop.                                         *)
(*                                                                         *)
(* Every request is a Python thread; an action is one stretch of a thread  *)
(* between two points where another thread can observe or change shared    *)
(* state (the lock registry, the locks, the persisted agent states).       *)
(***************************************************************************)
EXTENDS Naturals, Integers, Sequences, FiniteSets, TLC

\* ---------------------------------------------------------------- bounds

\* Number of requests the callers issue (each request is one thread).
NumRequests == 2

\* Number of agent ids the requests may name.
NumAgents == 2

\* The largest max_chaining_steps the server is constructed with.
MaxCap == 2

\* The provider asks for at most this many loop iterations of one step call:
\* the guard that keeps the loop finite when max_chaining_steps is None.
MaxSteps == MaxCap + 1

\* letta.constants.MAX_ERROR_MESSAGE_CHAR_LIMIT, scaled down to the length of
\* "Error executing tool f: " so that both the untruncated and the truncated
\* case occur with short exception messages.
MAX_ERROR_MESSAGE_CHAR_LIMIT == 24

\* Python's Optional[T]: None is the empty sequence, a value x is <<x>>.
None == <<>>

Some(x) == <<x>>

Get(o) == o[1]

NoError == ""

Requests == 1..NumRequests

AgentIds == 1..NumAgents

\* ---------------------------------------------------------------- state

VARIABLES
  chaining,            \* SyncServer.chaining
  max_chaining_steps,  \* SyncServer.max_chaining_steps (None = no limit)
  locks,               \* PerAgentLockManager.locks: agent id -> Some(lock), None = not allocated yet
  lock_holder,         \* one entry per allocated lock: Some(request holding it), or None
  persisted,           \* the Persistence Boundary: agent id -> saved AgentState, or None
  pc,                  \* request -> its position in the code
  kind,                \* request -> the entry point it came through
  agent_id,            \* request -> the agent id it names
  input_messages,      \* request -> the batch handed to _step
  agent_lock,          \* request -> load_agent's local agent_lock
  letta_agent,         \* request -> the in-memory Agent it loaded, or None
  step_count,          \* request -> Agent.step's counter
  heartbeat_request,   \* request -> heartbeat flag of the response processed last
  error,               \* request -> the exception it is raising / has raised, or NoError
  usage_stats,         \* request -> the LettaUsageStatistics returned, or None
  step_yields,         \* request -> number of interface.step_yield() calls
  hist,                \* request -> history of the step call: whether every response so far asked
                       \* for a heartbeat, whether the tool call of the iteration processed
                       \* last raised, and the type of the response processed last
  env,                 \* the environment of a run: the requests the callers issue, the entry
                       \* points they use, the answers the provider and the sandbox can give
  call,                \* request -> the arguments its caller passed to the entry point
  before,              \* request -> the buffer or log its command or listing found (history)
  printed,             \* request -> the messages its command gave the interface to print
  db,                  \* the tables of the other managers: the recall log of each agent,
                       \* the jobs, the agents each source is attached to, the blocks of
                       \* each agent's core memory
  ret,                 \* request -> what its call returns when it is not usage statistics:
                       \* the records listed, the job object held, the memory
  frame                \* request -> the locals of its update_agent call, or None

vars == <<chaining, max_chaining_steps, locks, lock_holder, persisted, pc, kind,
          agent_id, input_messages, agent_lock, letta_agent, step_count,
          heartbeat_request, error, usage_stats, step_yields, hist, env, call, before,
          printed, db, ret, frame>>

server_vars == <<chaining, max_chaining_steps, env>>

\* ---------------------------------------------------------------- text

\* Strings are sequences of one-character strings.
Take(s, n) == SubSeq(s, 1, IF n < Len(s) THEN n ELSE Len(s))

\* str.startswith
StartsWith(s, prefix) ==
  Len(s) >= Len(prefix) /\ SubSeq(s, 1, Len(prefix)) = prefix

ErrorPrefix ==
  <<"E","r","r","o","r"," ","e","x","e","c","u","t","i","n","g"," ","t","o","o","l"," ">>

ToolNames == {<<"f">>}

ExceptionMessages == {<<>>, <<"x">>, <<"x","y">>}

\* f"Error executing tool {tool_name}: {exception_message}"
ErrorText(tool_name, exception_message) ==
  ErrorPrefix \o tool_name \o <<":", " ">> \o exception_message

get_error_msg_for_func_return_untruncated(tool_name, exception_message) ==
  ErrorText(tool_name, exception_message)

\* (the slice taken one character short, and already at the limit)
get_error_msg_for_func_return_cut_short(tool_name, exception_message) ==
  LET error_msg == ErrorText(tool_name, exception_message)
  IN IF Len(error_msg) >= MAX_ERROR_MESSAGE_CHAR_LIMIT
       THEN Take(error_msg, MAX_ERROR_MESSAGE_CHAR_LIMIT - 1)
       ELSE error_msg

get_error_msg_for_func_return(tool_name, exception_message) ==
  LET error_msg == ErrorText(tool_name, exception_message)
  IN IF Len(error_msg) > MAX_ERROR_MESSAGE_CHAR_LIMIT
       THEN Take(error_msg, MAX_ERROR_MESSAGE_CHAR_LIMIT)
       ELSE error_msg

\* ---------------------------------------------------------------- messages

\* A Message: its role, the request that created it (0: it was there at the
\* start), its text (content), for a tool result its status, and for an
\* assistant message that calls a tool its function_call (None otherwise).
Msg(role, req, text, status) ==
  [role |-> role, req |-> req, text |-> text, status |-> status, function_call |-> None]

SystemPrompt == Msg("system", 0, <<"s">>, "")

FirstUserMessage == Msg("user", 0, <<"u">>, "")

\* ---------------------------------------------------------------- agent states

\* The AgentState rows a database can hold for an agent id.
OkAgentState ==
  [created_by_id |-> "user-1", agent_type |-> "memgpt_agent",
   messages |-> <<SystemPrompt, FirstUserMessage>>,
   tags |-> <<>>, tools |-> <<"tool-1">>]

InitAgentStates ==
  { None,
    Some(OkAgentState),
    Some([OkAgentState EXCEPT !.created_by_id = "None"]),
    Some([OkAgentState EXCEPT !.agent_type = "unknown_agent"]) }

AgentTypes == {"memgpt_agent", "o1_agent", "offline_memory_agent", "chat_only_agent"}

\* ---------------------------------------------------------------- entry points

EntryPoints == {"user_message", "system_message", "send_messages"}

\* The batch an entry point hands to _step: user_message and system_message
\* package their string into one Message of their role; send_messages turns
\* each MessageCreate into a Message, in order.
Batch(k, r) ==
  CASE k = "user_message" -> <<Msg("user", r, <<"h","i">>, "")>>
    [] k = "system_message" -> <<Msg("system", r, <<"h","i">>, "")>>
    [] OTHER -> <<Msg("user", r, <<"h","i">>, ""), Msg("system", r, <<"h","i">>, "")>>

\* user_message / system_message / send_messages with valid input (a known
\* user, non-empty text without the command prefix, roles user and system), up
\* to their call of _step; _step's own input validation passes (a list of
\* Message). user_message and system_message are issued for agents that exist.
Submit(r) ==
  /\ pc[r] = "idle"
  /\ r \in env.clients
  /\ \E a \in AgentIds, k \in env.entry_points :
       /\ agent_id' = [agent_id EXCEPT ![r] = a]
       /\ kind' = [kind EXCEPT ![r] = k]
       /\ input_messages' = [input_messages EXCEPT ![r] = Batch(k, r)]
  /\ pc' = [pc EXCEPT ![r] = "get_lock"]
  /\ UNCHANGED <<server_vars, frame, db, ret, printed, call, before, locks, lock_holder, persisted, agent_lock, letta_agent,
                 step_count, heartbeat_request, error, usage_stats, step_yields, hist>>

\* ---------------------------------------------------------------- entry points, any input

\* The largest list of messages a caller passes to send_messages.
MaxBatch == 2

\* The texts callers send: empty, starting with the command prefix, plain.
Texts == {<<>>, <<"/","x">>, <<"h","i">>}

\* The text field of a Message object whose text is None.
NoneText == <<"None">>

\* What a caller can pass as a message: a str, a Message or MessageCreate
\* object (role, text), or a value of another type.
Raw(type, role, text) == [type |-> type, role |-> role, text |-> text]

NoUser == "nobody"

UserIds == {"user-1", NoUser}

\* system.package_user_message / system.package_system_message: the text
\* wrapped into a JSON envelope.
package_message(text) == <<"{">> \o text \o <<"}">>

\* The Basic input sanitization of a str: the exception it raises, or NoError.
SanitizeStrNoPrefixCheck(text) ==
  IF Len(text) = 0 THEN "ValueError: invalid input" ELSE NoError

SanitizeStr(text) ==
  IF Len(text) = 0 THEN "ValueError: invalid input"
  ELSE IF StartsWith(text, <<"/">>) THEN "ValueError: invalid input"
  ELSE NoError

\* The outcome of an entry point up to _step's call of load_agent: the
\* exception raised before it, or NoError and the batch _step goes on with.
Outcome(err, batch) == [error |-> err, batch |-> batch]

\* _step's input validation: a Message becomes a one-element list; a list must
\* hold only Message objects; another value is not iterable.
step_validation(r, input) ==
  IF input.type = "Message" THEN Outcome(NoError, <<Msg(input.role, r, input.text, "")>>)
  ELSE IF input.type = "list"
    THEN IF \A i \in DOMAIN input.items : input.items[i].type = "Message"
           THEN Outcome(NoError,
                        [i \in DOMAIN input.items |->
                           Msg(input.items[i].role, r, input.items[i].text, "")])
           ELSE Outcome("ValueError: messages should be a Message or a list of Message", <<>>)
  ELSE Outcome("TypeError", <<>>)

\* get_user_by_id and get_agent_by_id at the head of user_message and
\* system_message: NoResultFound becomes a ValueError.
lookup_error(user_id, a) ==
  IF user_id = NoUser THEN "ValueError: user does not exist"
  ELSE IF persisted[a] = None THEN "ValueError: agent does not exist"
  ELSE NoError

\* user_message: a str is sanitized and packaged into a user Message; anything
\* else is handed to _step as it is.
user_message(r, user_id, a, message) ==
  IF lookup_error(user_id, a) # NoError THEN Outcome(lookup_error(user_id, a), <<>>)
  ELSE IF message.type = "str"
    THEN IF SanitizeStr(message.text) # NoError
           THEN Outcome(SanitizeStr(message.text), <<>>)
           ELSE step_validation(r, Raw("Message", "user", package_message(message.text)))
  ELSE step_validation(r, message)

\* system_message: a str is sanitized and packaged into a system Message; a
\* Message (given or just built) must have a non-empty text that does not
\* start with the command prefix; any other type is a TypeError.
system_message(r, user_id, a, message) ==
  IF lookup_error(user_id, a) # NoError THEN Outcome(lookup_error(user_id, a), <<>>)
  ELSE IF message.type = "str" /\ SanitizeStr(message.text) # NoError
    THEN Outcome(SanitizeStr(message.text), <<>>)
  ELSE LET m == IF message.type = "str"
                  THEN Raw("Message", "system", package_message(message.text))
                  ELSE message
       IN IF m.type = "Message"
            THEN IF m.text = NoneText \/ Len(m.text) = 0
                   THEN Outcome("ValueError: invalid input", <<>>)
                 ELSE IF StartsWith(m.text, <<"/">>)
                   THEN Outcome("ValueError: invalid input", <<>>)
                 ELSE step_validation(r, m)
            ELSE Outcome("TypeError", <<>>)

\* send_messages, for a MessageCreate: wrapped when its role is user (system)
\* and wrap_user_message (wrap_system_message) is set, otherwise "Invalid
\* message role".
wrap_error(item, wrap_user_message, wrap_system_message) ==
  IF item.role = "user" /\ wrap_user_message THEN NoError
  ELSE IF item.role = "system" /\ wrap_system_message THEN NoError
  ELSE "ValueError: invalid message role"

\* send_messages: a list of MessageCreate is turned into Message objects, a
\* list of Message is taken as it is, any other list is rejected; the result
\* goes to _step.
send_messages(r, messages, wrap_user_message, wrap_system_message) ==
  IF \A i \in DOMAIN messages : messages[i].type = "MessageCreate"
    THEN IF \E i \in DOMAIN messages :
              wrap_error(messages[i], wrap_user_message, wrap_system_message) # NoError
           THEN Outcome("ValueError: invalid message role", <<>>)
           ELSE step_validation(r,
                  [type |-> "list",
                   items |-> [i \in DOMAIN messages |->
                                Raw("Message", messages[i].role,
                                    package_message(messages[i].text))]])
  ELSE IF \A i \in DOMAIN messages : messages[i].type = "Message"
    THEN step_validation(r, [type |-> "list", items |-> messages])
  ELSE Outcome("ValueError: all messages must be of type Message or MessageCreate", <<>>)

\* What callers pass to user_message and system_message.
MessageArgs(role) ==
  { Raw("str", "", t) : t \in Texts }
  \cup { Raw("Message", role, t) : t \in Texts \cup {NoneText} }
  \cup { Raw("int", "", <<>>) }

\* What callers put into the list they pass to send_messages.
BatchItems ==
  { Raw("MessageCreate", "user", t) : t \in Texts }
  \cup { Raw("MessageCreate", "system", <<"h","i">>), Raw("MessageCreate", "assistant", <<"h","i">>) }
  \cup { Raw("Message", "user", t) : t \in Texts }
  \cup { Raw("int", "", <<>>) }

RECURSIVE Lists(_, _)
Lists(S, n) ==
  IF n = 0 THEN {<<>>}
  ELSE Lists(S, n - 1) \cup { Append(l, x) : l \in {k \in Lists(S, n - 1) : Len(k) = n - 1}, x \in S }

\* The calls of the three entry points.
EntryCalls ==
  { [entry |-> e, user_id |-> u, agent_id |-> a, arg |-> m,
     wrap_user_message |-> TRUE, wrap_system_message |-> TRUE] :
      e \in {"user_message"}, u \in UserIds, a \in AgentIds, m \in MessageArgs("user") }
  \cup
  { [entry |-> e, user_id |-> u, agent_id |-> a, arg |-> m,
     wrap_user_message |-> TRUE, wrap_system_message |-> TRUE] :
      e \in {"system_message"}, u \in UserIds, a \in AgentIds, m \in MessageArgs("system") }
  \cup
  { [entry |-> e, user_id |-> "user-1", agent_id |-> a, arg |-> l,
     wrap_user_message |-> wu, wrap_system_message |-> ws] :
      e \in {"send_messages"}, a \in AgentIds, l \in Lists(BatchItems, MaxBatch),
      wu \in BOOLEAN, ws \in BOOLEAN }

EntryOutcome(r, c) ==
  CASE c.entry = "user_message" -> user_message(r, c.user_id, c.agent_id, c.arg)
    [] c.entry = "system_message" -> system_message(r, c.user_id, c.agent_id, c.arg)
    [] OTHER -> send_messages(r, c.arg, c.wrap_user_message, c.wrap_system_message)

\* A caller calls an entry point with any arguments: the call either raises
\* before load_agent, or goes on to load_agent with the batch.
Enter(r) ==
  /\ pc[r] = "idle"
  /\ r \in env.clients
  /\ \E c \in EntryCalls :
       /\ c.entry \in env.entry_points
       /\ call' = [call EXCEPT ![r] = Some(c)]
       /\ kind' = [kind EXCEPT ![r] = c.entry]
       /\ agent_id' = [agent_id EXCEPT ![r] = c.agent_id]
       /\ LET out == EntryOutcome(r, c)
          IN /\ error' = [error EXCEPT ![r] = out.error]
             /\ input_messages' = [input_messages EXCEPT ![r] = out.batch]
             /\ pc' = [pc EXCEPT ![r] = IF out.error = NoError THEN "get_lock" ELSE "raised"]
  /\ UNCHANGED <<server_vars, frame, db, ret, printed, before, locks, lock_holder, persisted, agent_lock, letta_agent,
                 step_count, heartbeat_request, usage_stats, step_yields, hist>>

\* ---------------------------------------------------------------- str operations

UpperCase == <<"A","B","C","D","E","F","G","H","I","J","K","L","M","N","O","P","Q","R","S","T","U","V","W","X","Y","Z">>

LowerCase == <<"a","b","c","d","e","f","g","h","i","j","k","l","m","n","o","p","q","r","s","t","u","v","w","x","y","z">>

Digits == <<"0","1","2","3","4","5","6","7","8","9">>

\* str.lower
Lower(s) ==
  [i \in DOMAIN s |->
     IF \E k \in DOMAIN UpperCase : UpperCase[k] = s[i]
       THEN LowerCase[CHOOSE k \in DOMAIN UpperCase : UpperCase[k] = s[i]]
       ELSE s[i]]

RECURSIVE LStrip(_)
LStrip(s) == IF s # <<>> /\ Head(s) = " " THEN LStrip(Tail(s)) ELSE s

RECURSIVE RStrip(_)
RStrip(s) == IF s # <<>> /\ s[Len(s)] = " " THEN RStrip(SubSeq(s, 1, Len(s) - 1)) ELSE s

\* str.strip
Strip(s) == RStrip(LStrip(s))

\* str.split(): the words between runs of whitespace.
RECURSIVE Split(_)
Split(s) ==
  LET t == LStrip(s)
  IN IF t = <<>> THEN <<>>
     ELSE LET n == IF \E i \in DOMAIN t : t[i] = " "
                     THEN (CHOOSE i \in DOMAIN t : t[i] = " " /\ \A j \in 1..(i - 1) : t[j] # " ") - 1
                     ELSE Len(t)
          IN <<SubSeq(t, 1, n)>> \o Split(SubSeq(t, n + 1, Len(t)))

\* str.isdigit
IsDigit(w) == w # <<>> /\ \A i \in DOMAIN w : \E d \in DOMAIN Digits : Digits[d] = w[i]

\* int(w) of a string of digits
RECURSIVE ParseInt(_)
ParseInt(w) ==
  IF w = <<>> THEN 0
  ELSE 10 * ParseInt(SubSeq(w, 1, Len(w) - 1))
       + (CHOOSE d \in DOMAIN Digits : Digits[d] = w[Len(w)]) - 1

\* command[len(prefix):]
After(command, prefix) == SubSeq(command, Len(prefix) + 1, Len(command))

\* ---------------------------------------------------------------- lock registry

\* PerAgentLockManager.get_lock(key), as one atomic insert-if-absent: the
\* registry after the call and the lock returned.
get_lock_fresh(key) ==
  [locks |-> [locks EXCEPT ![key] = Some(Len(lock_holder) + 1)],
   lock_holder |-> Append(lock_holder, None),
   lock |-> Len(lock_holder) + 1]

get_lock(key) ==
  IF locks[key] = None
    THEN [locks |-> [locks EXCEPT ![key] = Some(Len(lock_holder) + 1)],
          lock_holder |-> Append(lock_holder, None),
          lock |-> Len(lock_holder) + 1]
    ELSE [locks |-> locks, lock_holder |-> lock_holder, lock |-> Get(locks[key])]

\* The key load_agent passes to get_lock: the agent id of the request.
\* (one lock for the whole server)
LockKeyShared(r) == CHOOSE a \in AgentIds : TRUE

LockKey(r) == agent_id[r]

\* load_agent: agent_lock = self.per_agent_lock_manager.get_lock(agent_id)
GetLock(r) ==
  /\ pc[r] = "get_lock"
  /\ LET got == get_lock(LockKey(r))
     IN /\ locks' = got.locks
        /\ lock_holder' = got.lock_holder
        /\ agent_lock' = [agent_lock EXCEPT ![r] = Some(got.lock)]
  /\ pc' = [pc EXCEPT ![r] = "acquire"]
  /\ UNCHANGED <<server_vars, frame, db, ret, printed, call, before, persisted, kind, agent_id, input_messages, letta_agent,
                 step_count, heartbeat_request, error, usage_stats, step_yields, hist>>

\* load_agent: `with agent_lock:` entered; blocks while another thread holds it.
Acquire(r) ==
  /\ pc[r] = "acquire"
  /\ lock_holder[Get(agent_lock[r])] = None
  /\ lock_holder' = [lock_holder EXCEPT ![Get(agent_lock[r])] = Some(r)]
  /\ pc' = [pc EXCEPT ![r] = "load"]
  /\ UNCHANGED <<server_vars, frame, db, ret, printed, call, before, locks, persisted, kind, agent_id, input_messages, agent_lock,
                 letta_agent, step_count, heartbeat_request, error, usage_stats,
                 step_yields, hist>>

\* ---------------------------------------------------------------- load_agent

\* save_agent(agent): the agent's state replaces the persisted one.
save_agent(a, agent) == [persisted EXCEPT ![a] = Some(agent)]

\* The exception load_agent raises for the AgentState it read, or NoError.
LoadErrorNoOwnerCheck(agent_state) ==
  IF agent_state = None THEN "LettaAgentNotFoundError"
  ELSE IF Get(agent_state).agent_type \notin AgentTypes THEN "ValueError: invalid agent type"
  ELSE NoError

LoadError(agent_state) ==
  IF agent_state = None THEN "LettaAgentNotFoundError"
  ELSE IF Get(agent_state).created_by_id = "None" THEN "ValueError: no user_id"
  ELSE IF Get(agent_state).agent_type \notin AgentTypes THEN "ValueError: invalid agent type"
  ELSE NoError

\* load_agent, in the with block: read the AgentState, check it, build the Agent.
LoadRead(r) ==
  /\ pc[r] = "load"
  /\ LET agent_state == persisted[agent_id[r]]
     IN IF LoadError(agent_state) # NoError
          THEN /\ error' = [error EXCEPT ![r] = LoadError(agent_state)]
               /\ pc' = [pc EXCEPT ![r] = "exit_with"]
               /\ UNCHANGED letta_agent
          ELSE /\ letta_agent' = [letta_agent EXCEPT ![r] = agent_state]
               /\ pc' = [pc EXCEPT ![r] = "load_save"]
               /\ UNCHANGED error
  /\ UNCHANGED <<server_vars, frame, db, ret, printed, call, before, locks, lock_holder, persisted, kind, agent_id, input_messages,
                 agent_lock, step_count, heartbeat_request, usage_stats, step_yields, hist>>

\* load_agent, in the with block: rebuild_system_prompt and save_agent(agent).
LoadSave(r) ==
  /\ pc[r] = "load_save"
  /\ persisted' = save_agent(agent_id[r], Get(letta_agent[r]))
  /\ pc' = [pc EXCEPT ![r] = "exit_with"]
  /\ UNCHANGED <<server_vars, frame, db, ret, printed, call, before, locks, lock_holder, kind, agent_id, input_messages, agent_lock,
                 letta_agent, step_count, heartbeat_request, error, usage_stats,
                 step_yields, hist>>

\* Where load_agent's caller goes on: _step calls Agent.step when load_agent
\* returned and runs its except/finally when it raised; _command dispatches on
\* the command when load_agent returned, and lets its exception through, and
\* so do get_agent_recall_cursor with its listing, load_file_to_source with
\* attaching the source and update_agent_core_memory with returning the memory;
\* update_agent, remove_tool_from_agent and add_tool_to_agent go on where the
\* frame of the update_agent call says.
AfterLoad(r) ==
  IF kind[r] = "run_command"
    THEN IF error[r] = NoError THEN "command" ELSE "raised"
  ELSE IF kind[r] = "get_agent_recall_cursor"
    THEN IF error[r] = NoError THEN "recall" ELSE "raised"
  ELSE IF kind[r] = "load_file_to_source"
    THEN IF error[r] = NoError THEN "attach" ELSE "raised"
  ELSE IF kind[r] = "update_agent_core_memory"
    THEN IF error[r] = NoError THEN "memory" ELSE "raised"
  ELSE IF kind[r] = "update_agent"
    THEN IF error[r] = NoError THEN Get(frame[r]).at ELSE "raised"
  ELSE IF error[r] = NoError THEN "step" ELSE "finally"

\* The with block is left, by return or by exception: the lock is released in
\* both cases.
ExitWithOnReturnOnly(r) ==
  /\ pc[r] = "exit_with"
  /\ lock_holder' = IF error[r] = NoError
                      THEN [lock_holder EXCEPT ![Get(agent_lock[r])] = None]
                      ELSE lock_holder
  /\ pc' = [pc EXCEPT ![r] = AfterLoad(r)]
  /\ UNCHANGED <<server_vars, frame, db, ret, printed, call, before, locks, persisted, kind, agent_id, input_messages, agent_lock,
                 letta_agent, step_count, heartbeat_request, error, usage_stats,
                 step_yields, hist>>

\* (the with block left without releasing the lock)
ExitWithKeepingLock(r) ==
  /\ pc[r] = "exit_with"
  /\ pc' = [pc EXCEPT ![r] = AfterLoad(r)]
  /\ UNCHANGED <<server_vars, frame, db, ret, printed, call, before, locks, lock_holder, persisted, kind, agent_id, input_messages, agent_lock,
                 letta_agent, step_count, heartbeat_request, error, usage_stats,
                 step_yields, hist>>

ExitWith(r) ==
  /\ pc[r] = "exit_with"
  /\ lock_holder' = [lock_holder EXCEPT ![Get(agent_lock[r])] = None]
  /\ pc' = [pc EXCEPT ![r] = AfterLoad(r)]
  /\ UNCHANGED <<server_vars, frame, db, ret, printed, call, before, locks, persisted, kind, agent_id, input_messages, agent_lock,
                 letta_agent, step_count, heartbeat_request, error, usage_stats,
                 step_yields, hist>>

\* ---------------------------------------------------------------- Agent.step

\* What _step passes to Agent.step: chaining=self.chaining,
\* max_chaining_steps=self.max_chaining_steps.
StepArgsChainingDropped ==
  [chaining |-> TRUE, max_chaining_steps |-> max_chaining_steps]

StepArgsCapDropped ==
  [chaining |-> chaining, max_chaining_steps |-> None]

StepArgsDefaults ==
  [chaining |-> TRUE, max_chaining_steps |-> None]

StepArgs ==
  [chaining |-> chaining, max_chaining_steps |-> max_chaining_steps]

\* Agent.step begins: the input messages are appended to the in-context buffer.
AgentStepBegin(r) ==
  /\ pc[r] = "step"
  /\ letta_agent' = [letta_agent EXCEPT ![r] =
       Some([Get(@) EXCEPT !.messages = @ \o input_messages[r]])]
  /\ step_count' = [step_count EXCEPT ![r] = 0]
  /\ pc' = [pc EXCEPT ![r] = "inner_step"]
  /\ UNCHANGED <<server_vars, frame, db, ret, printed, call, before, locks, lock_holder, persisted, kind, agent_id, input_messages,
                 agent_lock, heartbeat_request, error, usage_stats, step_yields, hist>>

\* What the Provider Gateway and the Tool Execution Gateway can answer in one
\* loop iteration: the provider fails, or returns a tool call without its
\* required arguments, or returns text only, or returns a tool call (with its
\* heartbeat flag) that the sandbox runs ("ok") or fails to run ("raise").
Response(type, hb, outcome, tool_name, exception_message) ==
  [type |-> type, heartbeat |-> hb, outcome |-> outcome, tool_name |-> tool_name,
   exception_message |-> exception_message]

ProviderResponses ==
  { Response("provider_error", FALSE, "", <<>>, <<>>),
    Response("malformed_tool_call", FALSE, "", <<>>, <<>>),
    Response("text", FALSE, "", <<>>, <<>>) }
  \cup { Response("tool_call", hb, "ok", n, <<>>) : hb \in BOOLEAN, n \in ToolNames }
  \cup { Response("tool_call", hb, "raise", n, m) :
           hb \in BOOLEAN, n \in ToolNames, m \in ExceptionMessages }

\* ---------------------------------------------------------------- construction

\* SyncServer.__init__ leaves the lock manager empty; no request has been
\* issued yet.
JobIds == {"job-1"}

\* The sources that exist; NoSource is a source id that does not.
SourceIds == {"source-1", "source-2"}

NoSource == "source-0"

\* A job as the JobManager creates it.
CreatedJob == [status |-> "created", metadata_ |-> [num_passages |-> None, num_documents |-> None]]

\* The character limit of a core-memory block.
BlockLimit == 2

\* The labels of the blocks of an agent's core memory; NoLabel is a label no
\* block has.
Labels == {"human"}

NoLabel == "none"

\* The other managers' tables at the start: no messages in the recall logs,
\* the jobs created, source-1 attached to no agent and source-2 to agent 1,
\* every block empty.
InitDb ==
  [recall |-> [a \in AgentIds |-> <<>>],
   jobs |-> [j \in JobIds |-> CreatedJob],
   blocks |-> [a \in AgentIds |-> [l \in Labels |-> [value |-> <<>>, limit |-> BlockLimit]]],
   attached |-> [s \in SourceIds |-> IF s = "source-2" THEN <<1>> ELSE <<>>]]

InitServer ==
  /\ locks = [a \in AgentIds |-> None]
  /\ lock_holder = <<>>
  /\ pc = [r \in Requests |-> "idle"]
  /\ kind = [r \in Requests |-> ""]
  /\ agent_id = [r \in Requests |-> 1]
  /\ input_messages = [r \in Requests |-> <<>>]
  /\ agent_lock = [r \in Requests |-> None]
  /\ letta_agent = [r \in Requests |-> None]
  /\ step_count = [r \in Requests |-> 0]
  /\ heartbeat_request = [r \in Requests |-> FALSE]
  /\ error = [r \in Requests |-> NoError]
  /\ usage_stats = [r \in Requests |-> None]
  /\ step_yields = [r \in Requests |-> 0]
  /\ hist = [r \in Requests |->
               [all_heartbeat |-> TRUE, tool_raised |-> FALSE, last_response |-> ""]]
  /\ call = [r \in Requests |-> None]
  /\ before = [r \in Requests |-> <<>>]
  /\ printed = [r \in Requests |-> <<>>]
  /\ ret = [r \in Requests |-> None]
  /\ frame = [r \in Requests |-> None]

\* Concurrent requests against a server constructed with its defaults
\* (chaining=True, max_chaining_steps=None): every request is issued, through
\* send_messages; agent 1's row is any of InitAgentStates, the other agents'
\* rows are sound; the provider fails or answers with text.
ConcurrentGateway ==
  { Response("provider_error", FALSE, "", <<>>, <<>>),
    Response("text", FALSE, "", <<>>, <<>>) }

Init ==
  /\ InitServer
  /\ db = InitDb
  /\ chaining = TRUE
  /\ max_chaining_steps = None
  /\ persisted \in { p \in [AgentIds -> InitAgentStates] :
                       \A a \in AgentIds \ {1} : p[a] = Some(OkAgentState) }
  /\ env = [clients |-> Requests,
            entry_points |-> {"send_messages"},
            gateway |-> ConcurrentGateway]

\* One request through any entry point, against sound agents and a server
\* constructed with any chaining configuration, with every answer the
\* provider and the sandbox can give.
InitStep ==
  /\ InitServer
  /\ db = InitDb
  /\ chaining \in BOOLEAN
  /\ max_chaining_steps \in {None} \cup {Some(k) : k \in 1..MaxCap}
  /\ persisted = [a \in AgentIds |-> Some(OkAgentState)]
  /\ env = [clients |-> {1},
            entry_points |-> EntryPoints,
            gateway |-> ProviderResponses]

IsFatal(resp) == resp.type \in {"provider_error", "malformed_tool_call"}

\* The messages one iteration appends: the assistant's response and, for a tool
\* call, the tool-result message: the return value, or on a sandbox failure the
\* truncated error text with status error.
TurnMessages(r, resp) ==
  IF resp.type = "text" THEN <<Msg("assistant", r, <<"a">>, "")>>
  ELSE IF resp.outcome = "ok"
    THEN <<Msg("assistant", r, <<"c">>, ""), Msg("tool", r, <<"o","k">>, "success")>>
    ELSE <<Msg("assistant", r, <<"c">>, ""),
           Msg("tool", r, get_error_msg_for_func_return(resp.tool_name, resp.exception_message),
               "error")>>

\* The loop goes on iff chaining is on, the response processed last asked for a
\* heartbeat and the step counter is below max_chaining_steps (when set).
ContinueChaining(args, heartbeat, counter) ==
  /\ args.chaining
  /\ heartbeat
  /\ \/ args.max_chaining_steps = None
     \/ counter < Get(args.max_chaining_steps)

\* One iteration of Agent.step's loop. A provider failure (or a malformed tool
\* call) raises out of the loop; a sandbox failure does not.
InnerStep(r) ==
  /\ pc[r] = "inner_step"
  /\ \E resp \in env.gateway :
       IF IsFatal(resp)
         THEN /\ error' = [error EXCEPT ![r] = "ProviderError"]
              /\ pc' = [pc EXCEPT ![r] = "finally"]
              /\ hist' = [hist EXCEPT ![r].tool_raised = FALSE,
                                      ![r].last_response = resp.type]
              /\ UNCHANGED <<letta_agent, step_count, heartbeat_request, usage_stats>>
         ELSE LET counter == step_count[r] + 1
                  continue == ContinueChaining(StepArgs, resp.heartbeat, counter)
              IN /\ continue => counter < MaxSteps
                 /\ letta_agent' = [letta_agent EXCEPT ![r] =
                      Some([Get(@) EXCEPT !.messages = @ \o TurnMessages(r, resp)])]
                 /\ step_count' = [step_count EXCEPT ![r] = counter]
                 /\ heartbeat_request' = [heartbeat_request EXCEPT ![r] = resp.heartbeat]
                 /\ hist' = [hist EXCEPT
                      ![r].all_heartbeat = @ /\ resp.heartbeat,
                      ![r].tool_raised = (resp.outcome = "raise"),
                      ![r].last_response = resp.type]
                 /\ usage_stats' = [usage_stats EXCEPT ![r] =
                      IF continue THEN @ ELSE Some([step_count |-> counter])]
                 /\ pc' = [pc EXCEPT ![r] = IF continue THEN "inner_step" ELSE "save"]
                 /\ UNCHANGED error
  /\ UNCHANGED <<server_vars, frame, db, ret, printed, call, before, locks, lock_holder, persisted, kind, agent_id, input_messages,
                 agent_lock, step_yields>>

\* ---------------------------------------------------------------- _step

\* _step, after Agent.step returned: save_agent(letta_agent).
SaveAfterStep(r) ==
  /\ pc[r] = "save"
  /\ persisted' = save_agent(agent_id[r], Get(letta_agent[r]))
  /\ pc' = [pc EXCEPT ![r] = "finally"]
  /\ UNCHANGED <<server_vars, frame, db, ret, printed, call, before, locks, lock_holder, kind, agent_id, input_messages, agent_lock,
                 letta_agent, step_count, heartbeat_request, error, usage_stats,
                 step_yields, hist>>

\* _step's except (log, re-raise) and finally (step_yield when an agent was
\* loaded); then _step returns usage_stats or the exception leaves it.
FinallySaving(r) ==
  /\ pc[r] = "finally"
  /\ step_yields' = [step_yields EXCEPT ![r] = IF letta_agent[r] # None THEN @ + 1 ELSE @]
  /\ persisted' = IF letta_agent[r] # None
                    THEN save_agent(agent_id[r], Get(letta_agent[r]))
                    ELSE persisted
  /\ pc' = [pc EXCEPT ![r] = IF error[r] = NoError THEN "returned" ELSE "raised"]
  /\ UNCHANGED <<server_vars, frame, db, ret, printed, call, before, locks, lock_holder, kind, agent_id, input_messages,
                 agent_lock, letta_agent, step_count, heartbeat_request, error, usage_stats,
                 hist>>

\* (step_yield at the end of the try block, reached only when nothing raised)
FinallyYieldingOnSuccess(r) ==
  /\ pc[r] = "finally"
  /\ step_yields' = [step_yields EXCEPT ![r] = IF error[r] = NoError THEN @ + 1 ELSE @]
  /\ pc' = [pc EXCEPT ![r] = IF error[r] = NoError THEN "returned" ELSE "raised"]
  /\ UNCHANGED <<server_vars, frame, db, ret, printed, call, before, locks, lock_holder, persisted, kind, agent_id, input_messages,
                 agent_lock, letta_agent, step_count, heartbeat_request, error, usage_stats,
                 hist>>

Finally(r) ==
  /\ pc[r] = "finally"
  /\ step_yields' = [step_yields EXCEPT ![r] = IF letta_agent[r] # None THEN @ + 1 ELSE @]
  /\ pc' = [pc EXCEPT ![r] = IF error[r] = NoError THEN "returned" ELSE "raised"]
  /\ UNCHANGED <<server_vars, frame, db, ret, printed, call, before, locks, lock_holder, persisted, kind, agent_id, input_messages,
                 agent_lock, letta_agent, step_count, heartbeat_request, error, usage_stats,
                 hist>>

\* ---------------------------------------------------------------- json

\* A JSON object text is the sequence of its "key": value members as written;
\* json_loads makes the mapping of it: the keys in the order of their first
\* appearance, each with the value of its last member.
RECURSIVE KeyOrder(_)
KeyOrder(members) ==
  IF members = <<>> THEN <<>>
  ELSE LET front == KeyOrder(SubSeq(members, 1, Len(members) - 1))
           k == members[Len(members)][1]
       IN IF \E i \in DOMAIN front : front[i] = k THEN front ELSE Append(front, k)

json_loads(members) ==
  [keys |-> KeyOrder(members),
   val |-> [k \in {members[i][1] : i \in DOMAIN members} |->
              members[CHOOSE i \in DOMAIN members :
                        /\ members[i][1] = k
                        /\ \A j \in DOMAIN members : members[j][1] = k => j <= i][2]]]

\* args[k] = v
SetItem(args, k, v) ==
  [keys |-> IF k \in DOMAIN args.val THEN args.keys ELSE Append(args.keys, k),
   val |-> [x \in DOMAIN args.val \cup {k} |-> IF x = k THEN v ELSE args.val[x]]]

json_dumps(args) == [i \in DOMAIN args.keys |-> <<args.keys[i], args.val[args.keys[i]]>>]

\* ---------------------------------------------------------------- _command

\* The command strings callers pass to run_command.
CommandTexts ==
  { 
    <<"s","a","v","e">>,
    <<"d","u","m","p">>,
    <<"d","u","m","p"," ","2">>,
    <<"d","u","m","p"," ","0">>,
    <<"d","u","m","p"," ","1","0">>,
    <<"s","a","v","e","c","h","a","t">>,
    <<"d","u","m","p","r","a","w">>,
    <<"m","e","m","o","r","y">>,
    <<"a","t","t","a","c","h">>,
    <<"p","o","p">>,
    <<"p","o","p"," ","1">>,
    <<"p","o","p"," ","2">>,
    <<"p","o","p"," ","1","0">>,
    <<"P","O","P"," ","2">>,
    <<"p","o","p"," ","x">>,
    <<"p","o","p"," ","0">>,
    <<"r","e","t","r","y">>,
    <<"R","e","t","r","y">>,
    <<"r","e","t","h","i","n","k">>,
    <<"r","e","t","h","i","n","k"," ","C">>,
    <<"r","e","t","h","i","n","k"," "," ","C"," ">>,
    <<"R","e","t","h","i","n","k"," ","c">>,
    <<"r","e","w","r","i","t","e">>,
    <<"r","e","w","r","i","t","e"," ","C">>,
    <<"r","e","w","r","i","t","e"," "," ","C"," ">>,
    <<"e","x","i","t">>,
    <<"E","X","I","T">>,
    <<"w","i","p","e">>,
    <<"W","i","p","e">>,
    <<"h","e","a","r","t","b","e","a","t">>,
    <<"m","e","m","o","r","y","w","a","r","n","i","n","g">>,
    <<"b","o","g","u","s">>,
    <<"e","x","i","t"," ","n","o","w">>,
    <<"/","p","o","p"," ","1">>,
    <<"/","r","e","t","r","y">>,
    <<"/","e","x","i","t">>,
    <<"/","r","e","t","h","i","n","k"," ","C">>,
    <<"/","d","u","m","p"," ","2">>,
    <<"/","b","o","g","u","s">>,
    <<"/","h","e","a","r","t","b","e","a","t">>,
    <<"/","m","e","m","o","r","y">>,
    <<"/","s","a","v","e">>,
    <<"/">> }

\* run_command, handing the command on as it came.
run_command_unstripped(command) == command

\* run_command: a leading "/" is stripped from a command longer than it.
run_command(command) ==
  IF StartsWith(command, <<"/">>) /\ Len(command) > 1 THEN Tail(command) ELSE command

\* command.lower() == name
IsCommandCaseSensitive(command, name) == command = name

IsCommand(command, name) == Lower(command) = name

\* command.lower().startswith(name + " ")
HasArgs(command, name) == StartsWith(Lower(command), Append(name, " "))

\* The second word of the command as a number, when it is one.
Amount(command, default) ==
  LET words == Split(Strip(command))
  IN IF Len(words) > 1 /\ IsDigit(words[2]) THEN ParseInt(words[2]) ELSE default

MIN_MESSAGES == 2

Min(a, b) == IF a <= b THEN a ELSE b

\* dump, taking what it prints off the buffer.
dump_removing(command, messages) ==
  LET amount == Amount(command, 0)
      shown == IF amount = 0 THEN Len(messages) ELSE Min(amount, Len(messages))
  IN [messages |-> SubSeq(messages, 1, Len(messages) - shown),
      printed |-> SubSeq(messages, Len(messages) - shown + 1, Len(messages))]

\* dump [n]: the interface prints the whole buffer when n is 0 or missing,
\* otherwise messages[-min(n, len(messages)):]; the buffer stays as it is.
dump(command, messages) ==
  LET amount == Amount(command, 0)
  IN [messages |-> messages,
      printed |-> IF amount = 0 THEN messages
                  ELSE SubSeq(messages, Len(messages) - Min(amount, Len(messages)) + 1,
                              Len(messages))]

\* pop, clamping the amount to what can be removed.
pop_clamped(command, messages) ==
  LET n_messages == Len(messages)
  IN IF n_messages <= MIN_MESSAGES THEN messages
     ELSE SubSeq(messages, 1, n_messages - Min(Amount(command, 3), n_messages - MIN_MESSAGES))

\* pop, giving up the last message but one.
pop_leaving_one(command, messages) ==
  LET pop_amount == Amount(command, 3)
      n_messages == Len(messages)
  IN IF n_messages <= MIN_MESSAGES THEN messages
     ELSE IF n_messages - pop_amount < MIN_MESSAGES - 1 THEN messages
     ELSE SubSeq(messages, 1, n_messages - Min(pop_amount, n_messages))

\* pop [n]: nothing when the buffer has at most MIN_MESSAGES messages or would
\* be left with fewer than MIN_MESSAGES; otherwise the last n are popped.
pop(command, messages) ==
  LET pop_amount == Amount(command, 3)
      n_messages == Len(messages)
  IN IF n_messages <= MIN_MESSAGES THEN messages
     ELSE IF n_messages - pop_amount < MIN_MESSAGES THEN messages
     ELSE SubSeq(messages, 1, n_messages - Min(pop_amount, n_messages))

\* retry, stopping in front of the user message.
RECURSIVE retry_keeping_user(_)
retry_keeping_user(messages) ==
  IF Len(messages) = 0 THEN messages
  ELSE IF messages[Len(messages)].role = "user" THEN messages
  ELSE retry_keeping_user(SubSeq(messages, 1, Len(messages) - 1))

\* retry: messages are popped until a user message has been popped or the
\* buffer is empty.
RECURSIVE retry(_)
retry(messages) ==
  IF Len(messages) = 0 THEN messages
  ELSE IF messages[Len(messages)].role = "user" THEN SubSeq(messages, 1, Len(messages) - 1)
  ELSE retry(SubSeq(messages, 1, Len(messages) - 1))

\* for x in range(len(messages) - 1, 0, -1): the position (counted from 1) of
\* the first assistant message the scan meets, 0 when it meets none.
\* (the backward scan running down to the first message: range(len - 1, -1, -1))
TargetIndexFromFirst(messages) ==
  LET found == {x \in 1..Len(messages) : messages[x].role = "assistant"}
  IN IF found = {} THEN 0 ELSE CHOOSE x \in found : \A y \in found : y <= x

TargetIndex(messages) ==
  LET found == {x \in 2..Len(messages) : messages[x].role = "assistant"}
  IN IF found = {} THEN 0 ELSE CHOOSE x \in found : \A y \in found : y <= x

\* rethink, taking the text as it stands behind the command word.
rethink_unstripped(command, messages) ==
  IF Len(command) < Len(<<"r","e","t","h","i","n","k"," ">>) THEN messages
  ELSE LET x == TargetIndex(messages)
       IN IF x = 0 THEN messages
          ELSE [messages EXCEPT ![x].text = After(command, <<"r","e","t","h","i","n","k"," ">>)]

\* rethink <text>: the content of the message found becomes the stripped text.
rethink(command, messages) ==
  IF Len(command) < Len(<<"r","e","t","h","i","n","k"," ">>) THEN messages
  ELSE LET x == TargetIndex(messages)
       IN IF x = 0 THEN messages
          ELSE [messages EXCEPT ![x].text = Strip(After(command, <<"r","e","t","h","i","n","k"," ">>))]

\* rewrite, writing fresh arguments that hold the message only.
rewrite_dropping_other_args(command, messages) ==
  IF Len(command) < Len(<<"r","e","w","r","i","t","e"," ">>) THEN [messages |-> messages, error |-> NoError]
  ELSE LET x == TargetIndex(messages)
       IN IF x = 0 THEN [messages |-> messages, error |-> NoError]
          ELSE IF messages[x].function_call = None
            THEN [messages |-> messages, error |-> "AttributeError"]
          ELSE [messages |->
                  [messages EXCEPT ![x].function_call =
                     Some([Get(@) EXCEPT !.arguments =
                             <<<<"message", Strip(After(command, <<"r","e","w","r","i","t","e"," ">>))>>>>])],
                error |-> NoError]

\* rewrite <text>: the arguments of the function call of the message found are
\* parsed, their "message" set to the stripped text, and written back; a
\* message without function call makes .get("arguments") fail on None.
rewrite(command, messages) ==
  IF Len(command) < Len(<<"r","e","w","r","i","t","e"," ">>) THEN [messages |-> messages, error |-> NoError]
  ELSE LET x == TargetIndex(messages)
       IN IF x = 0 THEN [messages |-> messages, error |-> NoError]
          ELSE IF messages[x].function_call = None
            THEN [messages |-> messages, error |-> "AttributeError"]
          ELSE LET text == Strip(After(command, <<"r","e","w","r","i","t","e"," ">>))
                   args == SetItem(json_loads(Get(messages[x].function_call).arguments),
                                   "message", text)
               IN [messages |->
                     [messages EXCEPT ![x].function_call =
                        Some([Get(@) EXCEPT !.arguments = json_dumps(args)])],
                   error |-> NoError]

\* LettaUsageStatistics()
DefaultUsage == [step_count |-> 0]

\* What _command does after load_agent: the buffer it leaves in the loaded
\* agent, the exception it raises (or NoError), what it returns, and whether
\* it called save_agent.
CommandResult(messages, err, result, save, shown) ==
  [messages |-> messages, error |-> err, result |-> result, save |-> save, printed |-> shown]

\* No branch matches, and the command is refused.
unknown_command_refused(messages) ==
  CommandResult(messages, "ValueError: command", DefaultUsage, FALSE, <<>>)

\* No branch matches: usage is still None and _command returns
\* LettaUsageStatistics().
unknown_command(messages) ==
  CommandResult(messages, NoError, DefaultUsage, FALSE, <<>>)

_command(command, messages) ==
  IF IsCommand(command, <<"e","x","i","t">>)
    THEN CommandResult(messages, "ValueError: command", DefaultUsage, FALSE, <<>>)
  ELSE IF IsCommand(command, <<"s","a","v","e">>) \/ IsCommand(command, <<"s","a","v","e","c","h","a","t">>)
    THEN CommandResult(messages, NoError, DefaultUsage, TRUE, <<>>)
  ELSE IF IsCommand(command, <<"a","t","t","a","c","h">>)
    THEN CommandResult(messages, "ValueError: command", DefaultUsage, FALSE, <<>>)
  ELSE IF IsCommand(command, <<"d","u","m","p">>) \/ HasArgs(command, <<"d","u","m","p">>)
    THEN CommandResult(dump(command, messages).messages, NoError, DefaultUsage, FALSE,
                       dump(command, messages).printed)
  ELSE IF IsCommand(command, <<"d","u","m","p","r","a","w">>)
    THEN CommandResult(messages, NoError, DefaultUsage, FALSE, messages)
  ELSE IF IsCommand(command, <<"m","e","m","o","r","y">>)
    THEN CommandResult(messages, NoError, [ret_str |-> "Dumping memory contents"], FALSE, <<>>)
  ELSE IF IsCommand(command, <<"p","o","p">>) \/ HasArgs(command, <<"p","o","p">>)
    THEN CommandResult(pop(command, messages), NoError, DefaultUsage, FALSE, <<>>)
  ELSE IF IsCommand(command, <<"r","e","t","r","y">>)
    THEN CommandResult(retry(messages), NoError, DefaultUsage, FALSE, <<>>)
  ELSE IF IsCommand(command, <<"r","e","t","h","i","n","k">>) \/ HasArgs(command, <<"r","e","t","h","i","n","k">>)
    THEN CommandResult(rethink(command, messages), NoError, DefaultUsage, FALSE, <<>>)
  ELSE IF IsCommand(command, <<"r","e","w","r","i","t","e">>) \/ HasArgs(command, <<"r","e","w","r","i","t","e">>)
    THEN CommandResult(rewrite(command, messages).messages, rewrite(command, messages).error,
                       DefaultUsage, FALSE, <<>>)
  ELSE IF IsCommand(command, <<"w","i","p","e">>)
    THEN CommandResult(messages, "ValueError: command", DefaultUsage, FALSE, <<>>)
  ELSE IF IsCommand(command, <<"h","e","a","r","t","b","e","a","t">>) \/ IsCommand(command, <<"m","e","m","o","r","y","w","a","r","n","i","n","g">>)
    THEN CommandResult(messages, "TypeError: _step() got an unexpected keyword argument",
                       DefaultUsage, FALSE, <<>>)
  ELSE unknown_command(messages)

\* run_command: the prefix is stripped and _command entered, up to its call of
\* load_agent (get_user_or_default does not fail).
RunCommand(r) ==
  /\ pc[r] = "idle"
  /\ r \in env.clients
  /\ \E a \in AgentIds, u \in UserIds, command \in CommandTexts :
       /\ call' = [call EXCEPT ![r] =
                     Some([entry |-> "run_command", user_id |-> u, agent_id |-> a,
                           arg |-> command,
                           wrap_user_message |-> TRUE, wrap_system_message |-> TRUE])]
       /\ agent_id' = [agent_id EXCEPT ![r] = a]
  /\ kind' = [kind EXCEPT ![r] = "run_command"]
  /\ pc' = [pc EXCEPT ![r] = "get_lock"]
  /\ UNCHANGED <<server_vars, frame, db, ret, printed, before, locks, lock_holder, persisted, input_messages, agent_lock,
                 letta_agent, step_count, heartbeat_request, error, usage_stats, step_yields,
                 hist>>

\* The command request r runs, after the prefix was stripped.
CommandOf(r) == run_command(Get(call[r]).arg)

\* _command after load_agent returned: the command is carried out on the
\* loaded agent and _command returns or raises.
Dispatch(r) ==
  /\ pc[r] = "command"
  /\ LET agent == Get(letta_agent[r])
         out == _command(CommandOf(r), agent.messages)
     IN /\ before' = [before EXCEPT ![r] = agent.messages]
        /\ letta_agent' = [letta_agent EXCEPT ![r] = Some([agent EXCEPT !.messages = out.messages])]
        /\ persisted' = IF out.save THEN save_agent(agent_id[r], agent) ELSE persisted
        /\ error' = [error EXCEPT ![r] = out.error]
        /\ usage_stats' = [usage_stats EXCEPT ![r] =
                             IF out.error = NoError THEN Some(out.result) ELSE @]
        /\ printed' = [printed EXCEPT ![r] = out.printed]
        /\ pc' = [pc EXCEPT ![r] = IF out.error = NoError THEN "returned" ELSE "raised"]
  /\ UNCHANGED <<server_vars, frame, db, ret, call, locks, lock_holder, kind, agent_id, input_messages, agent_lock,
                 step_count, heartbeat_request, step_yields, hist>>

\* ---------------------------------------------------------------- recall memory

\* The most messages the recall logs hold together.
MaxRecall == 3

\* The largest limit a caller of get_agent_recall_cursor gives.
MaxLimit == 2

\* A row of the messages table: its id and its creation timestamp.
RecallMessage(id, t) == [id |-> id, created_at |-> t]

RECURSIVE Reverse(_)
Reverse(s) == IF s = <<>> THEN <<>> ELSE Append(Reverse(Tail(s)), Head(s))

RECURSIVE SumLen(_, _)
SumLen(f, S) ==
  IF S = {} THEN 0
  ELSE LET x == CHOOSE y \in S : TRUE IN Len(f[x]) + SumLen(f, S \ {x})

\* The agents that take steps, and so get messages, while listings run.
RecallAgents == {1}

\* A message is appended to agent a's recall log (by a step of the agent): its
\* timestamp is not before that of the message appended last.
AppendRecall(a) ==
  /\ a \in RecallAgents
  /\ SumLen(db.recall, AgentIds) < MaxRecall
  /\ LET log == db.recall[a]
         last == IF log = <<>> THEN 1 ELSE log[Len(log)].created_at
     IN \E t \in {last, last + 1} :
          db' = [db EXCEPT !.recall[a] = Append(log, RecallMessage(Len(log) + 1, t))]
  /\ UNCHANGED <<server_vars, frame, printed, ret, call, before, locks, lock_holder, persisted, pc, kind,
                 agent_id, input_messages, agent_lock, letta_agent, step_count,
                 heartbeat_request, error, usage_stats, step_yields, hist>>

\* MessageManager.list_messages_for_agent: the messages created strictly after
\* start_date and strictly before end_date, in creation order or its reverse,
\* cut to the first `limit` of them.
list_messages_for_agent(log, start_date, end_date, limit, ascending) ==
  LET matching == SelectSeq(log, LAMBDA m :
                    /\ start_date = None \/ m.created_at > Get(start_date)
                    /\ end_date = None \/ m.created_at < Get(end_date))
      ordered == IF ascending THEN matching ELSE Reverse(matching)
  IN IF limit = None THEN ordered ELSE Take(ordered, Get(limit))

\* The cursor resolved to the beginning of time.
created_at_epoch(log, id) == 0

\* MessageManager.get_message_by_id(id).created_at
created_at(log, id) == log[CHOOSE i \in DOMAIN log : log[i].id = id].created_at

KnownMessage(log, cursor) == cursor = None \/ \E i \in DOMAIN log : log[i].id = Get(cursor)

\* get_agent_recall_cursor after load_agent: the cursors are resolved to the
\* timestamps of their messages, the messages listed with ascending = not
\* reverse, and the list reversed when reverse is set.
get_agent_recall_cursor(log, after, until, limit, reverse) ==
  IF ~KnownMessage(log, after) \/ ~KnownMessage(log, until)
    THEN [error |-> "NotFoundError", records |-> <<>>]
    ELSE LET records == list_messages_for_agent(log,
                          IF after = None THEN None ELSE Some(created_at(log, Get(after))),
                          IF until = None THEN None ELSE Some(created_at(log, Get(until))),
                          limit, ~reverse)
         IN [error |-> NoError,
             records |-> IF reverse THEN Reverse(records) ELSE records]

Cursors == {None} \cup {Some(i) : i \in 1..MaxRecall}

Limits == {None} \cup {Some(k) : k \in 1..MaxLimit}

\* get_agent_recall_cursor is called, up to its call of load_agent
\* (get_user_or_default does not fail).
GetRecall(r) ==
  /\ pc[r] = "idle"
  /\ r \in env.clients
  /\ \E a \in AgentIds, after \in Cursors, until \in Cursors, limit \in Limits,
        reverse \in BOOLEAN :
       /\ call' = [call EXCEPT ![r] =
                     Some([entry |-> "get_agent_recall_cursor", user_id |-> "user-1",
                           agent_id |-> a,
                           arg |-> [after |-> after, before |-> until, limit |-> limit,
                                    reverse |-> reverse],
                           wrap_user_message |-> TRUE, wrap_system_message |-> TRUE])]
       /\ agent_id' = [agent_id EXCEPT ![r] = a]
  /\ kind' = [kind EXCEPT ![r] = "get_agent_recall_cursor"]
  /\ pc' = [pc EXCEPT ![r] = "get_lock"]
  /\ UNCHANGED <<server_vars, frame, printed, db, ret, before, locks, lock_holder, persisted,
                 input_messages, agent_lock, letta_agent, step_count, heartbeat_request, error,
                 usage_stats, step_yields, hist>>

\* get_agent_recall_cursor after load_agent returned: the listing; before[r]
\* keeps the log as the listing found it.
Recall(r) ==
  /\ pc[r] = "recall"
  /\ LET arg == Get(call[r]).arg
         log == db.recall[agent_id[r]]
         out == get_agent_recall_cursor(log, arg.after, arg.before, arg.limit, arg.reverse)
     IN /\ before' = [before EXCEPT ![r] = log]
        /\ error' = [error EXCEPT ![r] = out.error]
        /\ ret' = [ret EXCEPT ![r] = IF out.error = NoError THEN Some(out.records) ELSE @]
        /\ pc' = [pc EXCEPT ![r] = IF out.error = NoError THEN "returned" ELSE "raised"]
  /\ UNCHANGED <<server_vars, frame, printed, db, call, locks, lock_holder, persisted, kind, agent_id,
                 input_messages, agent_lock, letta_agent, step_count, heartbeat_request,
                 usage_stats, step_yields, hist>>

\* ---------------------------------------------------------------- load_file_to_source

\* What DirectoryConnector and load_data do with the file: the passages and
\* documents counted, or a failure of the loader.
LoadOutcomes ==
  { [type |-> "loaded", num_passages |-> 2, num_documents |-> 1],
    [type |-> "loaded", num_passages |-> 0, num_documents |-> 0],
    [type |-> "raise", num_passages |-> 0, num_documents |-> 0] }

\* load_file_to_source is called: the job is fetched, its status set to
\* running, and the job written back.
LoadFileBegin(r) ==
  /\ pc[r] = "idle"
  /\ r \in env.clients
  /\ \E source_id \in SourceIds \cup {NoSource}, job_id \in JobIds :
       LET job == [db.jobs[job_id] EXCEPT !.status = "running"]
       IN /\ call' = [call EXCEPT ![r] =
                        Some([entry |-> "load_file_to_source", user_id |-> "user-1",
                              agent_id |-> 1,
                              arg |-> [source_id |-> source_id, job_id |-> job_id],
                              wrap_user_message |-> TRUE, wrap_system_message |-> TRUE])]
          /\ ret' = [ret EXCEPT ![r] = Some(job)]
          /\ db' = [db EXCEPT !.jobs[job_id] = job]
  /\ kind' = [kind EXCEPT ![r] = "load_file_to_source"]
  /\ pc' = [pc EXCEPT ![r] = "load_data"]
  /\ UNCHANGED <<server_vars, frame, printed, before, locks, lock_holder, persisted, agent_id,
                 input_messages, agent_lock, letta_agent, step_count, heartbeat_request, error,
                 usage_stats, step_yields, hist>>

\* load_file_to_source: the source is looked up (a missing source raises
\* ValueError) and the file loaded (a loader failure raises); then the job held
\* is marked completed with the counts and written back, and the agents the
\* source is attached to are visited, the first by load_agent.
LoadFileData(r) ==
  /\ pc[r] = "load_data"
  /\ LET arg == Get(call[r]).arg
     IN IF arg.source_id \notin SourceIds
          THEN /\ error' = [error EXCEPT ![r] = "ValueError: source does not exist"]
               /\ pc' = [pc EXCEPT ![r] = "raised"]
               /\ UNCHANGED <<db, ret, agent_id>>
          ELSE \E out \in LoadOutcomes :
                 IF out.type = "raise"
                   THEN /\ error' = [error EXCEPT ![r] = "LoaderError"]
                        /\ pc' = [pc EXCEPT ![r] = "raised"]
                        /\ UNCHANGED <<db, ret, agent_id>>
                   ELSE LET job == [Get(ret[r]) EXCEPT
                                      !.status = "completed",
                                      !.metadata_.num_passages = Some(out.num_passages),
                                      !.metadata_.num_documents = Some(out.num_documents)]
                        IN /\ ret' = [ret EXCEPT ![r] = Some(job)]
                           /\ db' = [db EXCEPT !.jobs[arg.job_id] = job]
                           /\ IF db.attached[arg.source_id] = <<>>
                                THEN /\ pc' = [pc EXCEPT ![r] = "returned"]
                                     /\ UNCHANGED agent_id
                                ELSE /\ pc' = [pc EXCEPT ![r] = "get_lock"]
                                     /\ agent_id' = [agent_id EXCEPT ![r] =
                                                       Head(db.attached[arg.source_id])]
                           /\ UNCHANGED error
  /\ UNCHANGED <<server_vars, frame, printed, call, before, locks, lock_holder, persisted, kind,
                 input_messages, agent_lock, letta_agent, step_count, heartbeat_request,
                 usage_stats, step_yields, hist>>

\* load_file_to_source, for the agent the source is attached to, after
\* load_agent returned: the source is attached to the agent again, and the job
\* returned.
AttachSource(r) ==
  /\ pc[r] = "attach"
  /\ pc' = [pc EXCEPT ![r] = "returned"]
  /\ UNCHANGED <<server_vars, frame, printed, db, ret, call, before, locks, lock_holder, persisted, kind,
                 agent_id, input_messages, agent_lock, letta_agent, step_count,
                 heartbeat_request, error, usage_stats, step_yields, hist>>

\* ---------------------------------------------------------------- update_agent_core_memory

\* The values callers write: up to one character more than the limit.
BlockValues == {Take(<<"a","b","c","d","e","f","g","h">>, n) : n \in 0..(BlockLimit + 1)}

\* The agents whose core memory callers update.
CoreMemoryAgents == {1}

\* BlockManager.update_block, writing whatever it is given.
update_block_unchecked(blocks, a, label, value) ==
  [error |-> NoError, blocks |-> [blocks EXCEPT ![a][label].value = value]]

\* BlockManager.update_block: a value longer than the block's limit is
\* rejected, any other becomes the block's value.
update_block(blocks, a, label, value) ==
  IF Len(value) > blocks[a][label].limit
    THEN [error |-> "ValueError: exceeds character limit", blocks |-> blocks]
    ELSE [error |-> NoError, blocks |-> [blocks EXCEPT ![a][label].value = value]]

\* update_agent_core_memory up to its call of load_agent: the block with the
\* label is looked up and updated.
UpdateCoreMemory(r) ==
  /\ pc[r] = "idle"
  /\ r \in env.clients
  /\ \E a \in CoreMemoryAgents, label \in Labels \cup {NoLabel}, value \in BlockValues :
       /\ call' = [call EXCEPT ![r] =
                     Some([entry |-> "update_agent_core_memory", user_id |-> "user-1",
                           agent_id |-> a, arg |-> [label |-> label, value |-> value],
                           wrap_user_message |-> TRUE, wrap_system_message |-> TRUE])]
       /\ agent_id' = [agent_id EXCEPT ![r] = a]
       /\ IF label \notin Labels
            THEN /\ error' = [error EXCEPT ![r] = "NoResultFound"]
                 /\ pc' = [pc EXCEPT ![r] = "raised"]
                 /\ UNCHANGED db
            ELSE LET out == update_block(db.blocks, a, label, value)
                 IN /\ db' = [db EXCEPT !.blocks = out.blocks]
                    /\ error' = [error EXCEPT ![r] = out.error]
                    /\ pc' = [pc EXCEPT ![r] = IF out.error = NoError THEN "get_lock" ELSE "raised"]
  /\ kind' = [kind EXCEPT ![r] = "update_agent_core_memory"]
  /\ UNCHANGED <<server_vars, frame, printed, ret, before, locks, lock_holder, persisted,
                 input_messages, agent_lock, letta_agent, step_count, heartbeat_request,
                 usage_stats, step_yields, hist>>

\* update_agent_core_memory after load_agent returned: the loaded agent's
\* memory is returned.
ReturnMemory(r) ==
  /\ pc[r] = "memory"
  /\ ret' = [ret EXCEPT ![r] = Some(db.blocks[agent_id[r]])]
  /\ pc' = [pc EXCEPT ![r] = "returned"]
  /\ UNCHANGED <<server_vars, frame, printed, db, call, before, locks, lock_holder, persisted, kind,
                 agent_id, input_messages, agent_lock, letta_agent, step_count,
                 heartbeat_request, error, usage_stats, step_yields, hist>>

\* ---------------------------------------------------------------- update_agent

\* The tools that exist; NoTool is a tool id the tool manager does not know.
ToolIds == {"tool-1", "tool-2"}

NoTool == "tool-0"

\* The tool_ids lists and the tags a caller puts in an UpdateAgent request
\* (None: the field is not set).
ToolIdLists == {<<>>, <<"tool-2">>, <<"tool-1", "tool-2">>, <<"tool-2", NoTool>>}

TagLists == {None, Some(<<"t">>)}

Without(tools, tool_id) == SelectSeq(tools, LAMBDA t : t # tool_id)

\* remove_tool_from_agent: the agent's tool list without the tool.
remove_tool_from_agent(tools, tool_id) == Without(tools, tool_id)

\* add_tool_to_agent: the tool first, then the agent's tools that are not it.
add_tool_to_agent(tools, tool_id) == <<tool_id>> \o Without(tools, tool_id)

\* update_agent is called: its first statement is load_agent.
UpdateAgent(r) ==
  /\ pc[r] = "idle"
  /\ r \in env.clients
  /\ \E a \in AgentIds, tags \in TagLists, tool_ids \in ToolIdLists :
       /\ agent_id' = [agent_id EXCEPT ![r] = a]
       /\ call' = [call EXCEPT ![r] =
                     Some([entry |-> "update_agent", user_id |-> "user-1", agent_id |-> a,
                           arg |-> [tags |-> tags, tool_ids |-> tool_ids],
                           wrap_user_message |-> TRUE, wrap_system_message |-> TRUE])]
  /\ kind' = [kind EXCEPT ![r] = "update_agent"]
  /\ frame' = [frame EXCEPT ![r] =
                 Some([at |-> "update", letta_agent |-> None, tools_ids_to_remove |-> {},
                       tool_ids_to_add |-> {}, tool_id |-> ""])]
  /\ pc' = [pc EXCEPT ![r] = "get_lock"]
  /\ UNCHANGED <<server_vars, db, ret, printed, before, locks, lock_holder, persisted,
                 input_messages, agent_lock, letta_agent, step_count, heartbeat_request,
                 error, usage_stats, step_yields, hist>>

\* update_agent, after its load_agent: the tags are set on the loaded agent,
\* and for a non-empty tool_ids the tools to remove and to add are computed
\* from the loaded agent's tools.
UpdateFields(r) ==
  /\ pc[r] = "update"
  /\ LET request == Get(call[r]).arg
         loaded == Get(letta_agent[r])
         agent == IF request.tags # None
                    THEN [loaded EXCEPT !.tags = Get(request.tags)]
                    ELSE loaded
         current_tool_ids == {agent.tools[i] : i \in DOMAIN agent.tools}
         target_tool_ids == {request.tool_ids[i] : i \in DOMAIN request.tool_ids}
     IN IF request.tool_ids # <<>>
          THEN /\ frame' = [frame EXCEPT ![r] =
                              Some([Get(frame[r]) EXCEPT
                                      !.letta_agent = Some(agent),
                                      !.tool_ids_to_add = target_tool_ids \ current_tool_ids,
                                      !.tools_ids_to_remove = current_tool_ids \ target_tool_ids])]
               /\ pc' = [pc EXCEPT ![r] = "tools"]
          ELSE /\ frame' = [frame EXCEPT ![r] =
                              Some([Get(frame[r]) EXCEPT !.letta_agent = Some(agent)])]
               /\ pc' = [pc EXCEPT ![r] = "update_save"]
  /\ UNCHANGED <<server_vars, db, ret, printed, call, before, locks, lock_holder, persisted,
                 kind, agent_id, input_messages, agent_lock, letta_agent, step_count,
                 heartbeat_request, error, usage_stats, step_yields, hist>>

\* update_agent, the two loops and the reload: remove_tool_from_agent is
\* called for a tool to remove (a set is iterated in any order), when none is
\* left add_tool_to_agent for a tool to add, and after the loops load_agent
\* again; each of the three starts with load_agent.
NextTool(r) ==
  /\ pc[r] = "tools"
  /\ LET f == Get(frame[r])
     IN IF f.tools_ids_to_remove # {}
          THEN \E tool_id \in f.tools_ids_to_remove :
                 frame' = [frame EXCEPT ![r] =
                             Some([f EXCEPT !.at = "remove_tool", !.tool_id = tool_id,
                                            !.tools_ids_to_remove = @ \ {tool_id}])]
        ELSE IF f.tool_ids_to_add # {}
          THEN \E tool_id \in f.tool_ids_to_add :
                 frame' = [frame EXCEPT ![r] =
                             Some([f EXCEPT !.at = "add_tool", !.tool_id = tool_id,
                                            !.tool_ids_to_add = @ \ {tool_id}])]
        ELSE frame' = [frame EXCEPT ![r] = Some([f EXCEPT !.at = "reloaded"])]
  /\ letta_agent' = [letta_agent EXCEPT ![r] = None]
  /\ pc' = [pc EXCEPT ![r] = "get_lock"]
  /\ UNCHANGED <<server_vars, db, ret, printed, call, before, locks, lock_holder, persisted,
                 kind, agent_id, input_messages, agent_lock, step_count, heartbeat_request,
                 error, usage_stats, step_yields, hist>>

\* remove_tool_from_agent, after its load_agent: the loaded agent gets the
\* tool list without the tool and is saved.
RemoveTool(r) ==
  /\ pc[r] = "remove_tool"
  /\ LET agent == Get(letta_agent[r])
     IN persisted' = save_agent(agent_id[r],
                       [agent EXCEPT !.tools = remove_tool_from_agent(@, Get(frame[r]).tool_id)])
  /\ pc' = [pc EXCEPT ![r] = "tools"]
  /\ UNCHANGED <<server_vars, frame, db, ret, printed, call, before, locks, lock_holder, kind,
                 agent_id, input_messages, agent_lock, letta_agent, step_count,
                 heartbeat_request, error, usage_stats, step_yields, hist>>

\* add_tool_to_agent, after its load_agent: a tool the tool manager does not
\* know fails the assertion; otherwise the loaded agent gets the tool list with
\* the tool and is saved.
AddTool(r) ==
  /\ pc[r] = "add_tool"
  /\ LET agent == Get(letta_agent[r])
         tool_id == Get(frame[r]).tool_id
     IN IF tool_id \notin ToolIds
          THEN /\ error' = [error EXCEPT ![r] = "AssertionError"]
               /\ pc' = [pc EXCEPT ![r] = "raised"]
               /\ UNCHANGED persisted
          ELSE /\ persisted' = save_agent(agent_id[r],
                                 [agent EXCEPT !.tools = add_tool_to_agent(@, tool_id)])
               /\ pc' = [pc EXCEPT ![r] = "tools"]
               /\ UNCHANGED error
  /\ UNCHANGED <<server_vars, frame, db, ret, printed, call, before, locks, lock_holder, kind,
                 agent_id, input_messages, agent_lock, letta_agent, step_count,
                 heartbeat_request, usage_stats, step_yields, hist>>

\* update_agent, its end: after the reload the agent loaded last is
\* update_agent's letta_agent; it is saved and its state returned.
UpdateSave(r) ==
  /\ pc[r] \in {"reloaded", "update_save"}
  /\ LET agent == IF pc[r] = "reloaded" THEN letta_agent[r] ELSE Get(frame[r]).letta_agent
     IN /\ persisted' = save_agent(agent_id[r], Get(agent))
        /\ frame' = [frame EXCEPT ![r] = Some([Get(frame[r]) EXCEPT !.letta_agent = agent])]
        /\ ret' = [ret EXCEPT ![r] = agent]
  /\ pc' = [pc EXCEPT ![r] = "returned"]
  /\ UNCHANGED <<server_vars, db, printed, call, before, locks, lock_holder, kind, agent_id,
                 input_messages, agent_lock, letta_agent, step_count, heartbeat_request,
                 error, usage_stats, step_yields, hist>>

\* ---------------------------------------------------------------- run_tool_from_source

\* The tool_args strings callers pass: two JSON documents, a truncated one and
\* the empty string.
ToolArgs == {<<"{","}">>, <<"[","1","]">>, <<"{">>, <<>>}

\* json.loads(tool_args) succeeds: the text is a bracketed document that is
\* closed by the bracket that opens it.
json_decodes(text) ==
  /\ Len(text) >= 2
  /\ <<text[1], text[Len(text)]>> \in {<<"{", "}">>, <<"[", "]">>}

\* The tool_source_type and tool_name arguments (None: not given).
SourceTypes == {None, Some("python"), Some("javascript")}

ToolNameArgs == {None} \cup {Some(n) : n \in ToolNames}

\* The lines a tool run writes to stdout and stderr.
Lines == {<<>>, <<" ">>, <<"x">>, <<"x","y">>}

\* The values a tool run returns: None or a string.
FuncReturns == {NoneText, <<"r">>}

\* str(value)
Str(value) == IF value = NoneText THEN <<"N","o","n","e">> ELSE value

\* What ToolExecutionSandbox(...).run() does: it raises an exception with a
\* message, or returns func_return with the captured stdout and stderr lines.
SandboxRuns ==
  { [raised |-> TRUE, e |-> m, func_return |-> NoneText, stdout |-> <<>>, stderr |-> <<>>] :
      m \in ExceptionMessages }
  \cup
  { [raised |-> FALSE, e |-> <<>>, func_return |-> v, stdout |-> so, stderr |-> se] :
      v \in FuncReturns, so \in Lists(Lines, 1), se \in Lists(Lines, 2) }

\* [s for s in lines if s.strip()]
NonBlank(lines) == SelectSeq(lines, LAMBDA l : Strip(l) # <<>>)

\* traceback.format_exc()
Traceback == <<"T","r","a","c","e","b","a","c","k">>

FunctionReturn(status, function_return, stdout, stderr) ==
  [status |-> status, function_return |-> function_return, stdout |-> stdout, stderr |-> stderr]

\* (the except block re-raising what the sandbox raised)
run_tool_from_source_propagating(tool_args, tool_source_type, tool_name, run) ==
  IF ~json_decodes(tool_args)
    THEN [error |-> "ValueError: invalid JSON string for tool_args", ret |-> None]
  ELSE IF tool_source_type # None /\ tool_source_type # Some("python")
    THEN [error |-> "ValueError: only Python source code is supported", ret |-> None]
  ELSE IF tool_name = None
    THEN [error |-> "AssertionError", ret |-> None]
  ELSE IF run.raised
    THEN [error |-> "SandboxError", ret |-> None]
  ELSE LET stdout == NonBlank(run.stdout)
           stderr == NonBlank(run.stderr)
       IN IF stderr # <<>>
            THEN [error |-> NoError,
                  ret |-> Some(FunctionReturn("error",
                                 get_error_msg_for_func_return(Get(tool_name), stderr[Len(stderr)]),
                                 stdout, stderr))]
            ELSE [error |-> NoError,
                  ret |-> Some(FunctionReturn("success", Str(run.func_return), stdout, stderr))]

\* run_tool_from_source: the exception it raises, or the FunctionReturn it
\* returns. The Tool object keeps the name it is given.
run_tool_from_source(tool_args, tool_source_type, tool_name, run) ==
  IF ~json_decodes(tool_args)
    THEN [error |-> "ValueError: invalid JSON string for tool_args", ret |-> None]
  ELSE IF tool_source_type # None /\ tool_source_type # Some("python")
    THEN [error |-> "ValueError: only Python source code is supported", ret |-> None]
  ELSE IF tool_name = None
    THEN [error |-> "AssertionError", ret |-> None]
  ELSE IF run.raised
    THEN [error |-> NoError,
          ret |-> Some(FunctionReturn("error",
                         get_error_msg_for_func_return(Get(tool_name), run.e),
                         <<<<>>>>, <<Traceback>>))]
  ELSE LET stdout == NonBlank(run.stdout)
           stderr == NonBlank(run.stderr)
       IN IF stderr # <<>>
            THEN [error |-> NoError,
                  ret |-> Some(FunctionReturn("error",
                                 get_error_msg_for_func_return(Get(tool_name), stderr[Len(stderr)]),
                                 stdout, stderr))]
            ELSE [error |-> NoError,
                  ret |-> Some(FunctionReturn("success", Str(run.func_return), stdout, stderr))]

\* A caller runs a tool from source: the call returns or raises.
RunToolFromSource(r) ==
  /\ pc[r] = "idle"
  /\ r \in env.clients
  /\ \E tool_args \in ToolArgs, tool_source_type \in SourceTypes, tool_name \in ToolNameArgs,
        run \in SandboxRuns :
       LET out == run_tool_from_source(tool_args, tool_source_type, tool_name, run)
       IN /\ call' = [call EXCEPT ![r] =
                        Some([entry |-> "run_tool_from_source", user_id |-> "user-1",
                              agent_id |-> agent_id[r],
                              arg |-> [tool_args |-> tool_args,
                                       tool_source_type |-> tool_source_type,
                                       tool_name |-> tool_name, run |-> run],
                              wrap_user_message |-> TRUE, wrap_system_message |-> TRUE])]
          /\ error' = [error EXCEPT ![r] = out.error]
          /\ ret' = [ret EXCEPT ![r] = out.ret]
          /\ pc' = [pc EXCEPT ![r] = IF out.error = NoError THEN "returned" ELSE "raised"]
  /\ kind' = [kind EXCEPT ![r] = "run_tool_from_source"]
  /\ UNCHANGED <<server_vars, frame, db, printed, before, locks, lock_holder, persisted,
                 agent_id, input_messages, agent_lock, letta_agent, step_count,
                 heartbeat_request, usage_stats, step_yields, hist>>

\* ---------------------------------------------------------------- specification

Next ==
  \E r \in Requests :
    \/ Submit(r)
    \/ GetLock(r)
    \/ Acquire(r)
    \/ LoadRead(r)
    \/ LoadSave(r)
    \/ ExitWith(r)
    \/ AgentStepBegin(r)
    \/ InnerStep(r)
    \/ SaveAfterStep(r)
    \/ Finally(r)

Spec == Init /\ [][Next]_vars

StepSpec == InitStep /\ [][Next]_vars

\* Any call of the three entry points, one request at a time, against sound
\* agents and a server constructed with its defaults.
InitEntry ==
  /\ InitServer
  /\ db = InitDb
  /\ chaining = TRUE
  /\ max_chaining_steps = None
  /\ persisted = [a \in AgentIds |-> Some(OkAgentState)]
  /\ env = [clients |-> {1},
            entry_points |-> EntryPoints,
            gateway |-> ConcurrentGateway]

NextEntry ==
  \E r \in Requests :
    \/ Enter(r)
    \/ GetLock(r)
    \/ Acquire(r)
    \/ LoadRead(r)
    \/ LoadSave(r)
    \/ ExitWith(r)
    \/ AgentStepBegin(r)
    \/ InnerStep(r)
    \/ SaveAfterStep(r)
    \/ Finally(r)

EntrySpec == InitEntry /\ [][NextEntry]_vars

\* The in-context buffers commands are run on.
Call(msg, arguments) ==
  [msg EXCEPT !.function_call = Some([name |-> "send_message", arguments |-> arguments])]

Assistant(text, arguments) == Call(Msg("assistant", 0, text, ""), arguments)

ToolReturn == Msg("tool", 0, <<"o","k">>, "success")

CmdBuffers ==
  { <<>>,
    <<SystemPrompt, FirstUserMessage>>,
    <<SystemPrompt, FirstUserMessage, Msg("assistant", 0, <<"A">>, "")>>,
    <<SystemPrompt, FirstUserMessage,
      Assistant(<<"A">>, << <<"message", <<"A">>>>, <<"request_heartbeat", <<"t">>>> >>),
      ToolReturn,
      Assistant(<<"B">>, << <<"message", <<"B">>>>, <<"request_heartbeat", <<"t">>>>,
                            <<"message", <<"B","B">>>> >>)>>,
    <<SystemPrompt, FirstUserMessage,
      Assistant(<<"A">>, << <<"inner_thoughts", <<"i">>>> >>), ToolReturn>>,
    <<SystemPrompt, Assistant(<<"A">>, << <<"message", <<"A">>>> >>), ToolReturn,
      Assistant(<<"B">>, << <<"message", <<"B">>>> >>), ToolReturn, ToolReturn>>,
    <<Assistant(<<"A">>, << <<"message", <<"A">>>> >>), FirstUserMessage>> }

\* Any command, one at a time, on agents holding any of the buffers, in a
\* server constructed with its defaults.
InitCmd ==
  /\ InitServer
  /\ db = InitDb
  /\ chaining = TRUE
  /\ max_chaining_steps = None
  /\ \E b \in CmdBuffers :
       persisted = [a \in AgentIds |-> Some([OkAgentState EXCEPT !.messages = b])]
  /\ env = [clients |-> {1}, entry_points |-> {}, gateway |-> {}]

NextCmd ==
  \E r \in Requests :
    \/ RunCommand(r)
    \/ GetLock(r)
    \/ Acquire(r)
    \/ LoadRead(r)
    \/ LoadSave(r)
    \/ ExitWith(r)
    \/ Dispatch(r)

CmdSpec == InitCmd /\ [][NextCmd]_vars

\* Listings of the recall logs, one at a time, while messages are appended.
InitRecall ==
  /\ InitServer
  /\ db = InitDb
  /\ chaining = TRUE
  /\ max_chaining_steps = None
  /\ persisted = [a \in AgentIds |-> Some(OkAgentState)]
  /\ env = [clients |-> {1}, entry_points |-> {}, gateway |-> {}]

NextRecall ==
  \/ \E a \in AgentIds : AppendRecall(a)
  \/ \E r \in Requests :
       \/ GetRecall(r)
       \/ GetLock(r)
       \/ Acquire(r)
       \/ LoadRead(r)
       \/ LoadSave(r)
       \/ ExitWith(r)
       \/ Recall(r)

RecallSpec == InitRecall /\ [][NextRecall]_vars

\* Calls of load_file_to_source for the job, by all callers at any time.
InitJob ==
  /\ InitServer
  /\ db = InitDb
  /\ chaining = TRUE
  /\ max_chaining_steps = None
  /\ persisted \in [AgentIds -> {Some(OkAgentState)}]
  /\ env = [clients |-> Requests, entry_points |-> {}, gateway |-> {}]

NextJob ==
  \E r \in Requests :
    \/ LoadFileBegin(r)
    \/ LoadFileData(r)
    \/ GetLock(r)
    \/ Acquire(r)
    \/ LoadRead(r)
    \/ LoadSave(r)
    \/ ExitWith(r)
    \/ AttachSource(r)

JobSpec == InitJob /\ [][NextJob]_vars

\* Updates of the core memory by two callers at any time.
InitMemory ==
  /\ InitServer
  /\ db = InitDb
  /\ chaining = TRUE
  /\ max_chaining_steps = None
  /\ persisted \in [AgentIds -> {Some(OkAgentState)}]
  /\ env = [clients |-> {1, 2}, entry_points |-> {}, gateway |-> {}]

NextMemory ==
  \E r \in Requests :
    \/ UpdateCoreMemory(r)
    \/ GetLock(r)
    \/ Acquire(r)
    \/ LoadRead(r)
    \/ LoadSave(r)
    \/ ExitWith(r)
    \/ ReturnMemory(r)

MemorySpec == InitMemory /\ [][NextMemory]_vars

\* Two callers of update_agent at any time, on any agent, with any of the
\* requests.
InitUpdate ==
  /\ InitServer
  /\ db = InitDb
  /\ chaining = TRUE
  /\ max_chaining_steps = None
  /\ persisted = [a \in AgentIds |-> Some(OkAgentState)]
  /\ env = [clients |-> {1, 2}, entry_points |-> {}, gateway |-> {}]

NextUpdate ==
  \E r \in Requests :
    \/ UpdateAgent(r)
    \/ GetLock(r)
    \/ Acquire(r)
    \/ LoadRead(r)
    \/ LoadSave(r)
    \/ ExitWith(r)
    \/ UpdateFields(r)
    \/ NextTool(r)
    \/ RemoveTool(r)
    \/ AddTool(r)
    \/ UpdateSave(r)

UpdateSpec == InitUpdate /\ [][NextUpdate]_vars

\* One caller of run_tool_from_source, with any arguments and any outcome of
\* the sandbox.
InitTool ==
  /\ InitServer
  /\ db = InitDb
  /\ chaining = TRUE
  /\ max_chaining_steps = None
  /\ persisted = [a \in AgentIds |-> Some(OkAgentState)]
  /\ env = [clients |-> {1}, entry_points |-> {}, gateway |-> {}]

NextRunTool ==
  \E r \in Requests :
    RunToolFromSource(r)

ToolSpec == InitTool /\ [][NextRunTool]_vars

\* ---------------------------------------------------------------- properties

Range(seq) == {seq[i] : i \in DOMAIN seq}

\* The requests that are between the start of their load and the end of their
\* post-step persist.
InSpan(r) == pc[r] \in {"load", "load_save", "exit_with", "step", "inner_step", "save"}

\* The positions inside load_agent's with block.
InWithBlock(r) == pc[r] \in {"load", "load_save", "exit_with"}

HoldsLock(r) == \E l \in DOMAIN lock_holder : lock_holder[l] = Some(r)

LoadErrors ==
  {"LettaAgentNotFoundError", "ValueError: no user_id", "ValueError: invalid agent type"}

\* C1: for one agent id, the load->step->persist spans of two requests never
\* interleave: no two requests for the same agent are inside their spans at
\* the same time.
C1_SpansNeverInterleave ==
  \A r1, r2 \in Requests :
    (r1 # r2 /\ InSpan(r1) /\ InSpan(r2)) => agent_id[r1] # agent_id[r2]

\* C2: no lost update: when two requests for the same agent have both
\* succeeded, the persisted buffer holds the input messages and the turn
\* results (the assistant's response) of both.
C2_NoLostUpdate ==
  \A r1, r2 \in Requests :
    (r1 # r2 /\ agent_id[r1] = agent_id[r2] /\ pc[r1] = "returned" /\ pc[r2] = "returned")
      => \A r \in {r1, r2} :
           LET buffer == Get(persisted[agent_id[r]]).messages
           IN /\ Range(input_messages[r]) \subseteq Range(buffer)
              /\ \E m \in Range(buffer) : m.req = r /\ m.role = "assistant"

\* C3: the agent's lock is released when a request ends, however it ends: a
\* lock is only ever held by a request inside load_agent's with block, so a
\* request that has left the block (by return or by exception), and in
\* particular one that has terminated, holds no lock, and whoever waits for
\* the lock waits only for a request that is still inside the block.
C3_LockReleasedAtEnd ==
  \A r \in Requests : HoldsLock(r) => InWithBlock(r)

\* A request failed inside load_agent and has ended, and another request for
\* the same agent has acquired the lock it had held.
C3_Witness ==
  \E r1, r2 \in Requests :
    /\ pc[r1] = "raised" /\ error[r1] \in LoadErrors
    /\ agent_lock[r2] = agent_lock[r1]
    /\ HoldsLock(r2)

\* C4: the registry holds exactly one lock per agent id: all handles that
\* get_lock returned for one agent id are the same lock, the one the registry
\* maps the id to, and the registry has allocated exactly as many locks as it
\* has ids.
C4_OneLockPerAgent ==
  /\ \A r1, r2 \in Requests :
       (agent_lock[r1] # None /\ agent_lock[r2] # None /\ agent_id[r1] = agent_id[r2])
         => agent_lock[r1] = agent_lock[r2]
  /\ \A r \in Requests : agent_lock[r] # None => locks[agent_id[r]] = agent_lock[r]
  /\ Len(lock_holder) = Cardinality({a \in AgentIds : locks[a] # None})

\* Two requests made the first get_lock calls for the same new agent id before
\* either went on, and hold handles to a lock.
C4_Witness ==
  \E r1, r2 \in Requests :
    /\ r1 # r2 /\ agent_id[r1] = agent_id[r2]
    /\ pc[r1] = "acquire" /\ pc[r2] = "acquire"
    /\ agent_lock[r1] # None /\ agent_lock[r2] # None

\* C5: requests for different agent ids never block each other: a request
\* that waits for its agent's lock waits only for a request for the same
\* agent id; while no such request holds the lock, it can acquire it.
C5_NoCrossAgentBlocking ==
  \A r \in Requests :
    pc[r] = "acquire" =>
      LET holder == lock_holder[Get(agent_lock[r])]
      IN IF holder = None THEN ENABLED Acquire(r)
         ELSE agent_id[Get(holder)] = agent_id[r]

\* Two requests for different agents are inside their with blocks at the same
\* time, each holding its agent's lock.
C5_Witness ==
  \E r1, r2 \in Requests :
    /\ agent_id[r1] # agent_id[r2]
    /\ pc[r1] = "load_save" /\ pc[r2] = "load_save"
    /\ HoldsLock(r1) /\ HoldsLock(r2)

\* C6: with chaining on and max_chaining_steps = k, the loop never performs
\* more than k iterations, and when every response asked for a heartbeat it
\* performs exactly k and returns step_count = k.
C6_ChainingTermination ==
  \A r \in Requests :
    (chaining /\ max_chaining_steps # None) =>
      /\ step_count[r] <= Get(max_chaining_steps)
      /\ (usage_stats[r] # None /\ hist[r].all_heartbeat)
           => /\ step_count[r] = Get(max_chaining_steps)
              /\ usage_stats[r] = Some([step_count |-> Get(max_chaining_steps)])

\* A step with the largest cap returned after exactly that many iterations,
\* each of which asked for a heartbeat.
C6_Witness ==
  \E r \in Requests :
    /\ chaining /\ max_chaining_steps = Some(MaxCap)
    /\ pc[r] = "returned" /\ hist[r].all_heartbeat
    /\ usage_stats[r] = Some([step_count |-> MaxCap])

\* C7: with chaining off, a step performs exactly one iteration and returns
\* step_count = 1, whatever the heartbeat flags and max_chaining_steps.
C7_NoChainingShortCircuit ==
  \A r \in Requests :
    ~chaining =>
      /\ step_count[r] <= 1
      /\ usage_stats[r] # None => usage_stats[r] = Some([step_count |-> 1])

\* With chaining off and a cap of two, a step whose response asked for a
\* heartbeat returned step_count = 1.
C7_Witness ==
  \E r \in Requests :
    /\ ~chaining /\ max_chaining_steps = Some(MaxCap)
    /\ pc[r] = "returned" /\ heartbeat_request[r]
    /\ usage_stats[r] = Some([step_count |-> 1])

\* C8: after an iteration the loop goes on iff chaining is on, the response
\* just processed asked for a heartbeat and the counter is below
\* max_chaining_steps (or that is unset); after a response without a tool call
\* it never goes on.
C8_ContinueIff ==
  \A r \in Requests :
    (step_count[r] >= 1 /\ error[r] = NoError) =>
      /\ (pc[r] = "inner_step") <=>
           /\ chaining
           /\ heartbeat_request[r]
           /\ \/ max_chaining_steps = None
              \/ step_count[r] < Get(max_chaining_steps)
      /\ hist[r].last_response = "text" => pc[r] # "inner_step"

\* The loop stopped after a first response without a tool call although
\* chaining was on and the cap not reached.
C8_Witness ==
  \E r \in Requests :
    /\ chaining /\ max_chaining_steps = Some(MaxCap)
    /\ step_count[r] = 1 /\ hist[r].last_response = "text"
    /\ pc[r] = "save"

\* The tool-result messages with status error of a buffer.
ToolErrors(buffer) == {m \in Range(buffer) : m.role = "tool" /\ m.status = "error"}

\* C9: a sandbox failure does not abort the loop: the iteration ends with a
\* tool-result message of status error whose text is the error text cut to the
\* character limit, and the step fails only through a provider error.
C9_ToolErrorRecoverable ==
  \A r \in Requests :
    /\ hist[r].tool_raised =>
         /\ error[r] = NoError
         /\ pc[r] \in {"inner_step", "save", "finally", "returned"}
         /\ LET buffer == Get(letta_agent[r]).messages
            IN buffer[Len(buffer)] \in ToolErrors(buffer)
    /\ letta_agent[r] # None =>
         \A m \in ToolErrors(Get(letta_agent[r]).messages) :
           /\ Len(m.text) <= MAX_ERROR_MESSAGE_CHAR_LIMIT
           /\ \E n \in ToolNames, e \in ExceptionMessages :
                m.text = Take(ErrorText(n, e), MAX_ERROR_MESSAGE_CHAR_LIMIT)
    /\ error[r] \in {NoError, "ProviderError"}

\* A step in which the sandbox raised returned successfully, and the persisted
\* buffer holds the error text cut at the limit.
C9_Witness ==
  \E r \in Requests :
    /\ pc[r] = "returned" /\ hist[r].tool_raised
    /\ \E m \in ToolErrors(Get(persisted[agent_id[r]]).messages) :
         /\ m.req = r
         /\ Len(m.text) = MAX_ERROR_MESSAGE_CHAR_LIMIT
         /\ \E n \in ToolNames, e \in ExceptionMessages :
              /\ Len(ErrorText(n, e)) > MAX_ERROR_MESSAGE_CHAR_LIMIT
              /\ m.text = Take(ErrorText(n, e), MAX_ERROR_MESSAGE_CHAR_LIMIT)

\* The messages of request r that the persisted state of any agent shows.
PersistedOf(r) ==
  UNION { {m \in Range(Get(persisted[a]).messages) : m.req = r} :
            a \in {b \in AgentIds : persisted[b] # None} }

\* C10: a fatal error raised in the step loop reaches the caller and nothing
\* of the aborted step is persisted: the request ends raising, and no input
\* message or turn message of it is in the persisted state.
C10_FatalNotPersisted ==
  \A r \in Requests :
    /\ error[r] # NoError => pc[r] # "returned" /\ PersistedOf(r) = {}
    /\ pc[r] = "raised" => error[r] # NoError

\* A request whose provider call failed has ended raising; its in-memory
\* buffer holds its input messages, the persisted state none of them.
C10_Witness ==
  \E r \in Requests :
    /\ pc[r] = "raised" /\ error[r] = "ProviderError"
    /\ Range(input_messages[r]) \subseteq Range(Get(letta_agent[r]).messages)
    /\ input_messages[r] # <<>>
    /\ PersistedOf(r) = {}

\* ---------------------------------------------------------------- entry validation

\* Request r's call was refused before load_agent: it ended raising, has no
\* lock object, loaded no agent, ran no step, and no lock was created and no
\* message of it persisted.
RejectedBeforeLock(r) ==
  /\ pc[r] = "raised"
  /\ error[r] # NoError
  /\ agent_lock[r] = None
  /\ letta_agent[r] = None
  /\ step_count[r] = 0
  /\ \A a \in AgentIds : locks[a] = None
  /\ PersistedOf(r) = {}

\* A text the input rules refuse: empty (or None), or starting with the
\* command prefix.
BadText(text) == text = NoneText \/ Len(text) = 0 \/ StartsWith(text, <<"/">>)

Called(r, entry) == call[r] # None /\ Get(call[r]).entry = entry

\* C11: an empty batch is rejected before the lock is acquired: send_messages
\* (and so _step) called with an empty list ends raising without lock, load or
\* persist.
C11_EmptyBatchRejected ==
  \A r \in Requests :
    (Called(r, "send_messages") /\ Get(call[r]).arg = <<>>) => RejectedBeforeLock(r)

\* C12: user_message and system_message called with a str that is empty or
\* starts with the command prefix fail with a validation error before any lock
\* is taken; no step runs and nothing is persisted.
C12_BadStringRejected ==
  \A r \in Requests :
    ((Called(r, "user_message") \/ Called(r, "system_message"))
      /\ Get(call[r]).arg.type = "str" /\ BadText(Get(call[r]).arg.text))
    => /\ RejectedBeforeLock(r)
       /\ error[r] \in {"ValueError: invalid input", "ValueError: user does not exist"}

\* A known user's user_message and system_message calls with the text "/x" for
\* an existing agent have been refused as invalid input.
C12_Witness ==
  \E r \in Requests :
    /\ Called(r, "system_message") \/ Called(r, "user_message")
    /\ Get(call[r]).user_id # NoUser
    /\ Get(call[r]).arg = Raw("str", "", <<"/","x">>)
    /\ pc[r] = "raised" /\ error[r] = "ValueError: invalid input"

\* The call's argument carries a text the input rules refuse, or is of a
\* malformed type.
BadArg(c) ==
  IF c.entry = "send_messages"
    THEN \/ \E i \in DOMAIN c.arg : c.arg[i].type = "int" \/ BadText(c.arg[i].text)
         \/ \E i, j \in DOMAIN c.arg : c.arg[i].type # c.arg[j].type
    ELSE c.arg.type = "int" \/ BadText(c.arg.text)

\* C13: every entry point rejects, before any lock, a message whose text is
\* empty or starts with the command prefix, also when it is passed as a Message
\* object, and rejects a batch of malformed type.
C13_EveryEntryValidates ==
  \A r \in Requests :
    (call[r] # None /\ BadArg(Get(call[r]))) => RejectedBeforeLock(r)

\* ---------------------------------------------------------------- commands

\* Request r ran a command on a loaded agent and _command has ended; before[r]
\* is the buffer load_agent gave it and BufferAfter(r) the buffer it left.
Dispatched(r) == Called(r, "run_command") /\ pc[r] \in {"returned", "raised"} /\ letta_agent[r] # None

BufferAfter(r) == Get(letta_agent[r]).messages

\* The pop commands sent, each with the n it asks for.
PopAmounts ==
  { <<<<"p","o","p">>, 3>>, <<<<"p","o","p"," ","0">>, 0>>, <<<<"p","o","p"," ","1">>, 1>>,
    <<<<"p","o","p"," ","2">>, 2>>, <<<<"p","o","p"," ","1","0">>, 10>>, <<<<"/","p","o","p"," ","1">>, 1>>,
    <<<<"P","O","P"," ","2">>, 2>> }

\* C14 as stated: pop n on a buffer of length m leaves the buffer unchanged if
\* m <= 2 and otherwise removes exactly min(n, m - 2) messages from the tail.
C14_PopClamps ==
  \A r \in Requests : \A c \in PopAmounts :
    (Dispatched(r) /\ Get(call[r]).arg = c[1])
    => LET m == Len(before[r])
       IN BufferAfter(r) = IF m <= 2 THEN before[r]
                           ELSE SubSeq(before[r], 1, m - Min(c[2], m - 2))

\* C14, amended: pop n (n = 3 when omitted) on a buffer of length m leaves the
\* buffer unchanged if m <= 2 or n > m - 2, and otherwise removes exactly n
\* messages from the tail, the remaining prefix unchanged.
C14_PopRefuses ==
  \A r \in Requests : \A c \in PopAmounts :
    (Dispatched(r) /\ Get(call[r]).arg = c[1])
    => LET m == Len(before[r])
       IN /\ pc[r] = "returned"
          /\ BufferAfter(r) = IF m <= 2 \/ c[2] > m - 2 THEN before[r]
                              ELSE SubSeq(before[r], 1, m - c[2])

\* `pop` has taken the default three messages off a buffer of five.
C14_Witness ==
  \E r \in Requests :
    /\ Dispatched(r) /\ Get(call[r]).arg = <<"p","o","p">>
    /\ Len(before[r]) = 5
    /\ BufferAfter(r) = SubSeq(before[r], 1, 2)

PopTexts == {c[1] : c \in PopAmounts} \cup {<<"p","o","p"," ","x">>}

RetryTexts == {<<"r","e","t","r","y">>, <<"R","e","t","r","y">>, <<"/","r","e","t","r","y">>}

\* The rethink and rewrite commands sent, each with its <text>.
RethinkTexts ==
  { <<<<"r","e","t","h","i","n","k"," ","C">>, <<"C">>>>, <<<<"r","e","t","h","i","n","k"," "," ","C"," ">>, <<"C">>>>,
    <<<<"R","e","t","h","i","n","k"," ","c">>, <<"c">>>> }

RewriteTexts ==
  { <<<<"r","e","w","r","i","t","e"," ","C">>, <<"C">>>>, <<<<"r","e","w","r","i","t","e"," "," ","C"," ">>, <<"C">>>> }

SizeKeepingTexts ==
  PopTexts \cup {c[1] : c \in RethinkTexts} \cup {c[1] : c \in RewriteTexts}
  \cup {<<"r","e","t","h","i","n","k">>, <<"r","e","w","r","i","t","e">>}

LastUser(messages) ==
  LET users == {i \in DOMAIN messages : messages[i].role = "user"}
  IN IF users = {} THEN 0 ELSE CHOOSE i \in users : \A j \in users : j <= i

\* C16: retry removes the messages from the tail up to and including the most
\* recent user message and nothing before it; without a user message the
\* buffer ends empty.
C16_RetrySemantics ==
  \A r \in Requests :
    (Dispatched(r) /\ Get(call[r]).arg \in RetryTexts)
    => /\ pc[r] = "returned"
       /\ BufferAfter(r) = IF LastUser(before[r]) = 0 THEN <<>>
                           ELSE SubSeq(before[r], 1, LastUser(before[r]) - 1)

\* retry on [system, user, assistant, tool, assistant] has left [system].
C16_Witness ==
  \E r \in Requests :
    /\ Dispatched(r) /\ Get(call[r]).arg = <<"r","e","t","r","y">>
    /\ Len(before[r]) = 5
    /\ [i \in 1..5 |-> before[r][i].role] = <<"system", "user", "assistant", "tool", "assistant">>
    /\ BufferAfter(r) = <<SystemPrompt>>

\* The highest position, counted from 0, of an assistant message at index
\* >= 1; -1 when there is none.
HighestAssistant(messages) ==
  LET found == {x \in 1..(Len(messages) - 1) : messages[x + 1].role = "assistant"}
  IN IF found = {} THEN -1 ELSE CHOOSE x \in found : \A y \in found : y <= x

\* C17: rethink <text> replaces the text of exactly one message, the assistant
\* message with the highest index >= 1, with <text> (the words behind the
\* command word, without the blanks around them); every other message, the
\* order and the length are unchanged; without such a message the buffer is
\* unchanged.
C17_RethinkTargeting ==
  \A r \in Requests : \A c \in RethinkTexts :
    (Dispatched(r) /\ Get(call[r]).arg = c[1])
    => LET x == HighestAssistant(before[r])
       IN /\ pc[r] = "returned"
          /\ BufferAfter(r) = IF x = -1 THEN before[r]
                              ELSE [before[r] EXCEPT ![x + 1].text = c[2]]

\* `rethink C` on [system, user, assistant A, tool, assistant B] has made the
\* last message's text C and left the assistant message before it alone.
C17_Witness ==
  \E r \in Requests :
    /\ Dispatched(r) /\ Get(call[r]).arg = <<"r","e","t","h","i","n","k"," ","C">>
    /\ Len(before[r]) = 5 /\ before[r][5].text = <<"B">> /\ before[r][3].text = <<"A">>
    /\ BufferAfter(r)[5].text = <<"C">>
    /\ BufferAfter(r)[3] = before[r][3]

\* The tool-call arguments of a message as a mapping.
ArgsOf(msg) == json_loads(Get(msg.function_call).arguments).val

\* C18: rewrite <text> selects the assistant message with the highest index
\* >= 1 and overwrites only the "message" field of its tool-call arguments with
\* <text>; its other argument fields, its text, every other message and the
\* length are unchanged; without such a message the buffer is unchanged.
C18_RewriteTargeting ==
  \A r \in Requests : \A c \in RewriteTexts :
    (Dispatched(r) /\ Get(call[r]).arg = c[1])
    => LET x == HighestAssistant(before[r])
           old == before[r][x + 1]
           new == BufferAfter(r)[x + 1]
       IN /\ Len(BufferAfter(r)) = Len(before[r])
          /\ \A i \in DOMAIN before[r] : i # x + 1 => BufferAfter(r)[i] = before[r][i]
          /\ x = -1 => BufferAfter(r) = before[r] /\ pc[r] = "returned"
          /\ (x # -1 /\ old.function_call = None) => new = old
          /\ (x # -1 /\ old.function_call # None) =>
               /\ pc[r] = "returned"
               /\ [new EXCEPT !.function_call = None] = [old EXCEPT !.function_call = None]
               /\ new.function_call # None
               /\ Get(new.function_call).name = Get(old.function_call).name
               /\ DOMAIN ArgsOf(new) = DOMAIN ArgsOf(old) \cup {"message"}
               /\ ArgsOf(new)["message"] = c[2]
               /\ \A k \in DOMAIN ArgsOf(old) : k # "message" => ArgsOf(new)[k] = ArgsOf(old)[k]

\* `rewrite C` has set the message argument of the last assistant message to C
\* and kept its request_heartbeat argument.
C18_Witness ==
  \E r \in Requests :
    /\ Dispatched(r) /\ Get(call[r]).arg = <<"r","e","w","r","i","t","e"," ","C">>
    /\ Len(before[r]) = 5 /\ before[r][5].function_call # None
    /\ ArgsOf(before[r][5])["message"] = <<"B","B">>
    /\ ArgsOf(BufferAfter(r)[5]) = [ArgsOf(before[r][5]) EXCEPT !["message"] = <<"C">>]
    /\ "request_heartbeat" \in DOMAIN ArgsOf(BufferAfter(r)[5])

ExitWipeTexts == {<<"e","x","i","t">>, <<"E","X","I","T">>, <<"w","i","p","e">>, <<"W","i","p","e">>, <<"/","e","x","i","t">>}

\* C19: exit and wipe, in any letter case, are always rejected with an
\* invalid-command error and neither changes the in-context buffer: such a
\* request never returns, and when it has raised, the error is the ValueError
\* of the command and the loaded and the persisted buffer are as loaded.
C19_ExitWipeRejected ==
  \A r \in Requests :
    (Called(r, "run_command") /\ Get(call[r]).arg \in ExitWipeTexts)
    => /\ pc[r] # "returned"
       /\ pc[r] = "raised" =>
            /\ error[r] = "ValueError: command"
            /\ BufferAfter(r) = before[r]
            /\ Get(persisted[agent_id[r]]).messages = before[r]

\* EXIT on an agent with messages has been rejected.
C19_Witness ==
  \E r \in Requests :
    /\ Called(r, "run_command") /\ Get(call[r]).arg = <<"E","X","I","T">>
    /\ pc[r] = "raised" /\ error[r] = "ValueError: command"
    /\ before[r] # <<>> /\ BufferAfter(r) = before[r]

\* C20: heartbeat and memorywarning re-enter the step loop exactly once with a
\* synthesized system message and return the usage statistics of that step:
\* the command returns, _step has run once for it, and usage statistics are
\* returned.
C20_HeartbeatReentersStep ==
  \A r \in Requests :
    (Dispatched(r) /\ Get(call[r]).arg \in {<<"h","e","a","r","t","b","e","a","t">>, <<"m","e","m","o","r","y","w","a","r","n","i","n","g">>})
    => /\ pc[r] = "returned"
       /\ step_yields[r] = 1
       /\ usage_stats[r] # None

\* Commands no branch of _command recognizes.
UnknownTexts == {<<"b","o","g","u","s">>, <<"e","x","i","t"," ","n","o","w">>, <<"/">>}

\* C21: an unrecognized command is a successful no-op: _command raises no
\* error, leaves the in-context buffer and the persisted buffer unchanged, runs
\* no step, and returns default (zero) usage statistics.
C21_UnknownCommandNoOp ==
  \A r \in Requests :
    (Dispatched(r) /\ Get(call[r]).arg \in UnknownTexts)
    => /\ pc[r] = "returned" /\ error[r] = NoError
       /\ BufferAfter(r) = before[r]
       /\ Get(persisted[agent_id[r]]).messages = before[r]
       /\ step_count[r] = 0 /\ step_yields[r] = 0
       /\ usage_stats[r] = Some([step_count |-> 0])

\* `bogus` on an agent with messages has returned.
C21_Witness ==
  \E r \in Requests :
    /\ Dispatched(r) /\ Get(call[r]).arg = <<"b","o","g","u","s">>
    /\ pc[r] = "returned" /\ before[r] # <<>>
    /\ usage_stats[r] = Some([step_count |-> 0])

\* The dump commands sent, each with its n (0 when omitted).
DumpAmounts ==
  { <<<<"d","u","m","p">>, 0>>, <<<<"d","u","m","p"," ","0">>, 0>>, <<<<"d","u","m","p"," ","2">>, 2>>,
    <<<<"d","u","m","p"," ","1","0">>, 10>> }

ReadOnlyTexts ==
  {c[1] : c \in DumpAmounts} \cup {<<"s","a","v","e">>, <<"s","a","v","e","c","h","a","t">>, <<"d","u","m","p","r","a","w">>, <<"m","e","m","o","r","y">>}

\* C22: the read-only commands (save, dump [n], dumpraw, memory) leave the
\* in-context buffer unchanged for every buffer and every n: same messages,
\* same order, same length; dump shows the whole buffer when n is omitted or
\* 0 and the last min(n, len) messages otherwise.
C22_ReadOnlyCommands ==
  \A r \in Requests :
    (Dispatched(r) /\ Get(call[r]).arg \in ReadOnlyTexts)
    => /\ pc[r] = "returned"
       /\ BufferAfter(r) = before[r]
       /\ Get(persisted[agent_id[r]]).messages = before[r]
       /\ \A c \in DumpAmounts :
            Get(call[r]).arg = c[1] =>
              LET m == Len(before[r])
              IN printed[r] = IF c[2] = 0 THEN before[r]
                              ELSE SubSeq(before[r], m - Min(c[2], m) + 1, m)

\* `dump 2` on a buffer of five has shown the last two messages and left the
\* five in place.
C22_Witness ==
  \E r \in Requests :
    /\ Dispatched(r) /\ Get(call[r]).arg = <<"d","u","m","p"," ","2">>
    /\ Len(before[r]) = 5
    /\ printed[r] = SubSeq(before[r], 4, 5)
    /\ BufferAfter(r) = before[r]

\* C23: the command marker is stripped before dispatch: for every non-empty
\* command text X that does not start with the marker, run_command("/" + X)
\* has the effect on the buffer, the output and the result (return value or
\* exception) that run_command(X) has on the same buffer.
C23_MarkerStripped ==
  \A r \in Requests : \A X \in CommandTexts :
    (X # <<>> /\ ~StartsWith(X, <<"/">>) /\ Dispatched(r) /\ Get(call[r]).arg = <<"/">> \o X)
    => LET out == _command(run_command(X), before[r])
       IN /\ BufferAfter(r) = out.messages
          /\ printed[r] = out.printed
          /\ error[r] = out.error
          /\ pc[r] = IF out.error = NoError THEN "returned" ELSE "raised"
          /\ out.error = NoError => usage_stats[r] = Some(out.result)

\* `/pop 1` has taken one message off a buffer of five, as `pop 1` does.
C23_Witness ==
  \E r \in Requests :
    /\ Dispatched(r) /\ Get(call[r]).arg = <<"/","p","o","p"," ","1">>
    /\ Len(before[r]) = 5
    /\ BufferAfter(r) = SubSeq(before[r], 1, 4)
    /\ BufferAfter(r) = _command(<<"p","o","p"," ","1">>, before[r]).messages

\* ---------------------------------------------------------------- recall pagination

\* Request r's get_agent_recall_cursor call has returned; before[r] is the log
\* its listing found.
Listed(r) == Called(r, "get_agent_recall_cursor") /\ pc[r] = "returned"

RecallArg(r) == Get(call[r]).arg

\* C24: with reverse=true get_agent_recall_cursor returns exactly the records
\* it returns with reverse=false for the same agent, cursors and limit, in the
\* exact opposite order, also when limit is smaller than the number of
\* matching messages.
C24_ReverseSameRecords ==
  \A r \in Requests :
    (Listed(r) /\ RecallArg(r).reverse)
    => ret[r] = Some(Reverse(get_agent_recall_cursor(before[r], RecallArg(r).after,
                               RecallArg(r).before, RecallArg(r).limit, FALSE).records))

IsPrefix(s, t) == Len(s) <= Len(t) /\ SubSeq(t, 1, Len(s)) = s

\* The timestamp of the message with the id, in the log.
TimeOf(log, id) == (CHOOSE m \in Range(log) : m.id = id).created_at

C26_JobForwardOnly ==
  [][\A j \in JobIds :
       LET old == db.jobs[j].status
           new == db'.jobs[j].status
       IN old # new => \/ old = "created" /\ new = "running"
                       \/ old = "running" /\ new \in {"completed", "failed"}]_vars

\* Request r's load_file_to_source call has ended.
LoadFileEnded(r) == Called(r, "load_file_to_source") /\ pc[r] \in {"returned", "raised"}

\* C30: a job never stays running once load_file_to_source has ended: when the
\* call has returned or raised, the job's persisted status is completed or
\* failed, and completed only with the passage and document counts in its
\* metadata.
C30_JobNeverLeftRunning ==
  \A r \in Requests :
    LoadFileEnded(r)
    => LET job == db.jobs[Get(call[r]).arg.job_id]
       IN /\ job.status \in {"completed", "failed"}
          /\ job.status = "completed" =>
               job.metadata_.num_passages # None /\ job.metadata_.num_documents # None

\* ---------------------------------------------------------------- core memory

\* C27: after any sequence of update_agent_core_memory calls every block's
\* value is at most as long as the block's character limit, and an update
\* whose value exceeds the limit is rejected and leaves the block unchanged.
C27_BlockBound ==
  /\ [](\A a \in AgentIds, l \in Labels :
          Len(db.blocks[a][l].value) <= db.blocks[a][l].limit)
  /\ [](\A r \in Requests :
          (Called(r, "update_agent_core_memory")
             /\ Get(call[r]).arg.label \in Labels
             /\ Len(Get(call[r]).arg.value) > BlockLimit)
          => pc[r] = "raised" /\ agent_lock[r] = None)
  /\ [][\A r \in Requests :
          (pc[r] = "idle" /\ pc'[r] = "raised") => db' = db]_vars

\* An update with a value longer than the limit has been rejected while the
\* block holds a value of full length written by another update.
C27_Witness ==
  \E r \in Requests :
    /\ Called(r, "update_agent_core_memory")
    /\ Len(Get(call[r]).arg.value) > BlockLimit
    /\ pc[r] = "raised" /\ error[r] = "ValueError: exceeds character limit"
    /\ Len(db.blocks[agent_id[r]]["human"].value) = BlockLimit

\* ---------------------------------------------------------------- load errors

\* The persisted state of the agent has no owning user reference.
NoOwner(a) == persisted[a] # None /\ Get(persisted[a]).created_by_id = "None"

\* C28: loading an agent whose persisted state has no owning user reference
\* fails as a fatal precondition error: a request that has read such a state
\* carries the error, has constructed no agent and run no step, the persisted
\* state is as it was, and once the request has left the with block it holds
\* no lock and ends raising.
C28_NoOwnerFatal ==
  \A r \in Requests :
    /\ (NoOwner(agent_id[r]) /\ pc[r] \notin {"idle", "get_lock", "acquire", "load"})
       => /\ error[r] = "ValueError: no user_id"
          /\ pc[r] \in {"exit_with", "finally", "raised"}
          /\ letta_agent[r] = None
          /\ step_count[r] = 0
          /\ pc[r] # "exit_with" => ~HoldsLock(r)
    /\ NoOwner(agent_id[r])
       => persisted[agent_id[r]] = Some([OkAgentState EXCEPT !.created_by_id = "None"])

\* A request for an agent without owner has ended raising the error; it had
\* taken the agent's lock and holds it no more.
C28_Witness ==
  \E r \in Requests :
    /\ NoOwner(agent_id[r])
    /\ pc[r] = "raised" /\ error[r] = "ValueError: no user_id"
    /\ agent_lock[r] # None /\ ~HoldsLock(r)
    /\ letta_agent[r] = None

\* The call's user id or agent id is unknown.
UnknownId(c) == c.user_id = NoUser \/ persisted[c.agent_id] = None

\* C29: an unknown user id or agent id given to an entry point (user_message,
\* system_message, run_command) is surfaced to the caller as an error: the
\* call never returns, runs no step, and once it has ended it has raised, with
\* the persisted buffer of the agent as it was.
C29_UnknownIdsSurfaced ==
  \A r \in Requests :
    (call[r] # None /\ Get(call[r]).entry \in {"user_message", "system_message", "run_command"}
       /\ UnknownId(Get(call[r])))
    => /\ pc[r] # "returned"
       /\ step_count[r] = 0
       /\ pc[r] = "raised" => error[r] # NoError /\ PersistedOf(r) = {}

\* The locks a request holds.
LocksHeldBy(r) == {l \in DOMAIN lock_holder : lock_holder[l] = Some(r)}

\* The positions where a request asks for a lock or waits for one.
RequestsLock(r) == pc[r] \in {"get_lock", "acquire"}

\* C31: no nested lock acquisition. A request holds at most one agent lock,
\* holds it only inside load_agent's with block, and holds none when it asks
\* for a lock or waits for one; so the holder of a lock another request waits
\* for is never itself waiting, and no set of requests can deadlock. This
\* covers update_agent with its load_agent, the load_agent of every
\* remove_tool_from_agent and add_tool_to_agent, and its second load_agent.
C31_NoNestedLock ==
  \A r \in Requests :
    /\ Cardinality(LocksHeldBy(r)) <= 1
    /\ RequestsLock(r) => LocksHeldBy(r) = {}
    /\ LocksHeldBy(r) # {} => InWithBlock(r) /\ LocksHeldBy(r) = {Get(agent_lock[r])}
    /\ \A q \in Requests :
         (pc[r] = "acquire" /\ lock_holder[Get(agent_lock[r])] = Some(q))
           => q # r /\ InWithBlock(q)

\* A request inside one of update_agent's later load_agent calls holds the
\* agent's lock while another request waits for it.
C31_Witness ==
  \E r, q \in Requests :
    /\ kind[r] = "update_agent"
    /\ Get(frame[r]).at \in {"remove_tool", "add_tool", "reloaded"}
    /\ LocksHeldBy(r) # {}
    /\ pc[q] = "acquire"
    /\ agent_lock[q] = agent_lock[r]

\* The invocation of _step has ended.
StepEnded(r) == pc[r] \in {"returned", "raised"}

\* C32: in _step, interface.step_yield() is called exactly once per invocation
\* when load_agent returned an agent, whether the step succeeded or raised,
\* and not at all when load_agent failed; it is called after the step and the
\* post-step save, as the last thing the invocation does.
C32_StepYieldOnce ==
  \A r \in Requests :
    /\ step_yields[r] <= 1
    /\ StepEnded(r) => (step_yields[r] = 1 <=> error[r] \notin LoadErrors)
    /\ ~StepEnded(r) => step_yields[r] = 0
    /\ (StepEnded(r) /\ error[r] = NoError)
         => persisted[agent_id[r]] # None /\ usage_stats[r] # None

\* An invocation whose step raised has ended, with step_yield called.
C32_Witness ==
  \E r \in Requests :
    /\ pc[r] = "raised"
    /\ error[r] = "ProviderError"
    /\ letta_agent[r] # None
    /\ step_yields[r] = 1

\* The pop, retry, rethink and rewrite commands sent.
MutatingTexts ==
  PopTexts \cup RetryTexts \cup {c[1] : c \in RethinkTexts} \cup {c[1] : c \in RewriteTexts}

\* C33: the effect of a buffer-mutating command is durable. When pop, retry,
\* rethink or rewrite has returned with the in-context buffer changed, the
\* persisted state of the agent, which the next command or step loads, holds
\* the changed buffer.
C33_CommandDurable ==
  \A r \in Requests :
    (Dispatched(r) /\ pc[r] = "returned" /\ Get(call[r]).arg \in MutatingTexts
       /\ BufferAfter(r) # before[r])
    => Get(persisted[agent_id[r]]).messages = BufferAfter(r)

\* C34: the message at index 0 of the in-context buffer (the system message)
\* is never removed or modified by pop, rethink or rewrite, whatever the
\* buffer and the argument are, and also when the command raises.
C34_FirstMessageKept ==
  \A r \in Requests :
    (Dispatched(r) /\ Get(call[r]).arg \in SizeKeepingTexts /\ before[r] # <<>>)
    => /\ BufferAfter(r) # <<>>
       /\ BufferAfter(r)[1] = before[r][1]

\* A rethink or rewrite has run on a buffer whose only assistant message is at
\* index 0 and has left it alone.
C34_Witness ==
  \E r \in Requests :
    /\ Dispatched(r)
    /\ Get(call[r]).arg \in {c[1] : c \in RethinkTexts} \cup {c[1] : c \in RewriteTexts}
    /\ before[r] # <<>>
    /\ before[r][1].role = "assistant"
    /\ \A x \in 2..Len(before[r]) : before[r][x].role # "assistant"
    /\ BufferAfter(r) = before[r]

\* C35: rewrite <text> never raises on a well-formed buffer. When the nearest
\* assistant message (highest index >= 1) carries no tool-call descriptor, the
\* command returns without error and leaves the buffer unchanged.
C35_RewriteNeverRaises ==
  \A r \in Requests :
    (Dispatched(r) /\ Get(call[r]).arg \in {c[1] : c \in RewriteTexts}
       /\ HighestAssistant(before[r]) >= 1
       /\ before[r][HighestAssistant(before[r]) + 1].function_call = None)
    => /\ pc[r] = "returned"
       /\ error[r] = NoError
       /\ BufferAfter(r) = before[r]

\* The update_agent call of r, once it was issued, has had the agent to itself:
\* no other request has named the same agent.
AloneOnAgent(r) ==
  \A q \in Requests \ {r} : call[q] = None \/ agent_id[q] # agent_id[r]

ToolIdsOf(r) == Get(call[r]).arg.tool_ids

NoDuplicates(seq) == \A i, j \in DOMAIN seq : seq[i] = seq[j] => i = j

\* C36: update_agent with a non-empty tool_ids list T leaves the agent with
\* exactly the tool-id set T. A call that had the agent to itself has, when it
\* has ended, returned; the agent state saved and the one returned hold the
\* tools of T and no others, each once.
C36_ToolSetReplaced ==
  \A r \in Requests :
    (kind[r] = "update_agent" /\ pc[r] \in {"returned", "raised"}
       /\ ToolIdsOf(r) # <<>> /\ AloneOnAgent(r))
    => /\ pc[r] = "returned"
       /\ Range(Get(persisted[agent_id[r]]).tools) = Range(ToolIdsOf(r))
       /\ NoDuplicates(Get(persisted[agent_id[r]]).tools)
       /\ ret[r] = persisted[agent_id[r]]

\* C37: update_agent applies every field of the request. When a request with
\* tags and a non-empty tool_ids list has returned, the agent state saved and
\* the one returned have the requested tags and the requested tool set.
C37_EveryFieldApplied ==
  \A r \in Requests :
    (kind[r] = "update_agent" /\ pc[r] = "returned" /\ AloneOnAgent(r)
       /\ Get(call[r]).arg.tags # None /\ ToolIdsOf(r) # <<>>)
    => /\ Get(ret[r]).tags = Get(Get(call[r]).arg.tags)
       /\ Get(persisted[agent_id[r]]).tags = Get(Get(call[r]).arg.tags)
       /\ Range(Get(ret[r]).tools) = Range(ToolIdsOf(r))
       /\ Range(Get(persisted[agent_id[r]]).tools) = Range(ToolIdsOf(r))

\* The flag of send_messages that governs the wrapping of an item's text.
WrapFlag(c, item) ==
  IF item.role = "user" THEN c.wrap_user_message ELSE c.wrap_system_message

\* C38: send_messages accepts MessageCreate items of role user and system
\* whatever the wrap flags are: a list of such items is not rejected as
\* invalid, the batch handed to _step has the length and the roles of the
\* list, in order, and an item whose wrap flag is false keeps its text.
C38_WrapFlagsOptional ==
  \A r \in Requests :
    (Called(r, "send_messages")
       /\ \A i \in DOMAIN Get(call[r]).arg :
            /\ Get(call[r]).arg[i].type = "MessageCreate"
            /\ Get(call[r]).arg[i].role \in {"user", "system"})
    => LET c == Get(call[r])
       IN /\ error[r] # "ValueError: invalid message role"
          /\ Len(input_messages[r]) = Len(c.arg)
          /\ \A i \in DOMAIN c.arg :
               /\ input_messages[r][i].role = c.arg[i].role
               /\ ~WrapFlag(c, c.arg[i]) => input_messages[r][i].text = c.arg[i].text

\* The arguments of the run_tool_from_source call of r.
ToolCall(r) == Get(call[r]).arg

\* The tool_args texts sent that are JSON documents.
JsonTexts == {<<"{","}">>, <<"[","1","]">>}

\* The call of r is past run_tool_from_source's two argument checks.
ToolArgsAccepted(r) ==
  /\ Called(r, "run_tool_from_source")
  /\ ToolCall(r).tool_args \in JsonTexts
  /\ ToolCall(r).tool_source_type \in {None, Some("python")}

\* The sandbox raised, or wrote an error line that is not blank.
SandboxFailed(run) ==
  \/ run.raised
  \/ \E i \in DOMAIN run.stderr :
       \E k \in DOMAIN run.stderr[i] : run.stderr[i][k] \notin {" ", "\t", "\n"}

\* The call ended as the claim says: it returned a FunctionReturn, of status
\* "error" exactly when the sandbox failed and of status "success" otherwise.
ReturnedFunctionReturn(r) ==
  /\ pc[r] = "returned"
  /\ error[r] = NoError
  /\ ret[r] # None
  /\ Get(ret[r]).status = IF SandboxFailed(ToolCall(r).run) THEN "error" ELSE "success"

ReportedMessage(run) ==
  IF run.raised THEN run.e
  ELSE LET failed == {i \in DOMAIN run.stderr :
                        \E k \in DOMAIN run.stderr[i] : run.stderr[i][k] \notin {" ", "\t", "\n"}}
       IN run.stderr[CHOOSE i \in failed : \A j \in failed : j <= i]

\* "Error executing tool <name>: <message>" for the failed run of r.
FullErrorText(r) ==
  ErrorPrefix \o Get(ToolCall(r).tool_name) \o <<":", " ">> \o ReportedMessage(ToolCall(r).run)

\* The call of r has returned an error message made by
\* get_error_msg_for_func_return.
ErrorReturned(r) ==
  /\ Called(r, "run_tool_from_source")
  /\ pc[r] = "returned"
  /\ Get(ret[r]).status = "error"

\* C40: get_error_msg_for_func_return returns the first
\* min(len, MAX_ERROR_MESSAGE_CHAR_LIMIT) characters of
\* "Error executing tool <name>: <message>": the result never exceeds the
\* limit and is the full text when the text is within the limit.
C40_ErrorMessageBounded ==
  \A r \in Requests :
    ErrorReturned(r)
    => LET text == FullErrorText(r)
           got == Get(ret[r]).function_return
       IN /\ Len(got) = Min(Len(text), MAX_ERROR_MESSAGE_CHAR_LIMIT)
          /\ got = SubSeq(text, 1, Len(got))
          /\ Len(got) <= MAX_ERROR_MESSAGE_CHAR_LIMIT
          /\ Len(text) <= MAX_ERROR_MESSAGE_CHAR_LIMIT => got = text

\* An error message longer than the limit was returned cut to the limit.
C40_Witness ==
  \E r \in Requests :
    /\ ErrorReturned(r)
    /\ Len(FullErrorText(r)) > MAX_ERROR_MESSAGE_CHAR_LIMIT
    /\ Len(Get(ret[r]).function_return) = MAX_ERROR_MESSAGE_CHAR_LIMIT

====
